---- MODULE Spec2Model ----
(***************************************************************************)
(* A model of diego's analytics core: the SQLite event store               *)
(* (diego/analytics/database.py), the tracking intake                      *)
(* (diego/analytics/tracker.py) and the source bias classifier             *)
(* (diego/analytics/bias_detector.py).                                     *)
(*                                                                         *)
(* Numbers.  Bias and credibility are floats with one decimal in the       *)
(* source; the model keeps them as integers in tenths (-0.4 is -4).        *)
(* Results the source rounds to three decimals are integers in             *)
(* thousandths (0.289 is 289).  Thresholds are in thousandths too.         *)
(*                                                                         *)
(* Time.  The wall clock is an integer count of clock units.  SQLite's     *)
(* CURRENT_TIMESTAMP has a resolution of Res clock units (one second in    *)
(* the source) and is in UTC; Python's datetime.now() has the resolution   *)
(* of the clock and is in local time, tz clock units ahead of UTC.         *)
(***************************************************************************)
EXTENDS Integers, Sequences, FiniteSets, TLC

VARIABLES
    clock,              \* the wall clock, in clock units, UTC
    tz,                 \* offset of local time from UTC, in clock units
    consumption_log,    \* table consumption_log, in rowid order
    sqlite_sequence,    \* the largest id AUTOINCREMENT has given in consumption_log
    source_analysis,    \* table source_analysis: source -> row
    user_preferences,   \* table user_preferences, in rowid order
    analytics_settings, \* table analytics_settings: key -> value
    session_start_time, \* AnalyticsTracker._session_start_time
    input,              \* the argument the classifier is called with
    ret                 \* the last call made and what it returned

vars == <<clock, tz, consumption_log, sqlite_sequence, source_analysis, user_preferences,
          analytics_settings, session_start_time, input, ret>>

store == <<consumption_log, sqlite_sequence, source_analysis, user_preferences,
           analytics_settings>>

(***************************************************************************)
(* Bounds of the model.                                                    *)
(***************************************************************************)
MaxLog == 3         \* rows the consumption log may hold
MaxId == 3          \* ids the consumption log may give out
MaxPrefs == 2       \* rows user_preferences may hold
MaxClock == 5       \* the clock stops here
MaxSuffixes == 2    \* domain suffixes appended to a sampled source name
MaxSources == 4     \* length of a source list handed to the classifier

NULL == "<null>"   \* SQL NULL / Python None

(***************************************************************************)
(* Strings.  TLC gives Len, \o and SubSeq on strings; a character is a     *)
(* string of length 1.                                                     *)
(***************************************************************************)
UpperCase == "ABCDEFGHIJKLMNOPQRSTUVWXYZ"
LowerCase == "abcdefghijklmnopqrstuvwxyz"

Whitespace == {" ", "\t", "\n", "\r", "\f"}

CharAt(s, i) == SubSeq(s, i, i)

\* the lower-case letter of each upper-case letter
UpperToLower ==
    [c \in {CharAt(UpperCase, i) : i \in 1..Len(UpperCase)} |->
        CharAt(LowerCase, CHOOSE i \in 1..Len(UpperCase) : CharAt(UpperCase, i) = c)]

\* str.lower() on one character
LowerChar(c) == IF c \in DOMAIN UpperToLower THEN UpperToLower[c] ELSE c

\* str.lower()
RECURSIVE Lower(_)
Lower(s) ==
    IF Len(s) = 0 THEN ""
    ELSE LowerChar(CharAt(s, 1)) \o Lower(SubSeq(s, 2, Len(s)))

\* str.strip(): whitespace removed at both ends
RECURSIVE Strip(_)
Strip(s) ==
    IF Len(s) = 0 THEN ""
    ELSE IF CharAt(s, 1) \in Whitespace THEN Strip(SubSeq(s, 2, Len(s)))
    ELSE IF CharAt(s, Len(s)) \in Whitespace THEN Strip(SubSeq(s, 1, Len(s) - 1))
    ELSE s

\* str.endswith(suffix)
EndsWith(s, suffix) ==
    /\ Len(s) >= Len(suffix)
    /\ SubSeq(s, Len(s) - Len(suffix) + 1, Len(s)) = suffix

\* the characters of the sampled strings, in the order of their codes: SQLite's
\* BINARY collation orders TEXT by memcmp()
Ascii == " -.0123456789:ABCDEFGHIJKLMNOPQRSTUVWXYZ_abcdefghijklmnopqrstuvwxyz"

AsciiCode ==
    [c \in {CharAt(Ascii, i) : i \in 1..Len(Ascii)} |->
        CHOOSE i \in 1..Len(Ascii) : CharAt(Ascii, i) = c]

\* a < b for TEXT values
RECURSIVE StrLess(_, _)
StrLess(a, b) ==
    IF Len(b) = 0 THEN FALSE
    ELSE IF Len(a) = 0 THEN TRUE
    ELSE IF CharAt(a, 1) = CharAt(b, 1)
         THEN StrLess(SubSeq(a, 2, Len(a)), SubSeq(b, 2, Len(b)))
    ELSE AsciiCode[CharAt(a, 1)] < AsciiCode[CharAt(b, 1)]

(***************************************************************************)
(* BiasDetector._clean_source_name                                         *)
(***************************************************************************)
suffixes == <<".com", ".org", ".net", ".co.uk", ".au">>

variations ==
    [x \in {"the-guardian", "theguardian", "the-washington-post",
            "the-wall-street-journal", "wall-street-journal", "new-york-times",
            "the-new-york-times", "associated-press", "huffington-post",
            "usa-today"} |->
        CASE x = "the-guardian" -> "guardian"
          [] x = "theguardian" -> "guardian"
          [] x = "the-washington-post" -> "washingtonpost"
          [] x = "the-wall-street-journal" -> "wsj"
          [] x = "wall-street-journal" -> "wsj"
          [] x = "new-york-times" -> "nytimes"
          [] x = "the-new-york-times" -> "nytimes"
          [] x = "associated-press" -> "ap"
          [] x = "huffington-post" -> "huffpost"
          [] x = "usa-today" -> "usatoday"]

\* the loop over suffixes: the first suffix of the list that matches is cut, once
StripSuffix(clean) ==
    IF \E i \in 1..Len(suffixes) : EndsWith(clean, suffixes[i])
    THEN LET i == CHOOSE j \in 1..Len(suffixes) :
                    /\ EndsWith(clean, suffixes[j])
                    /\ \A k \in 1..(j - 1) : ~EndsWith(clean, suffixes[k])
         IN  SubSeq(clean, 1, Len(clean) - Len(suffixes[i]))
    ELSE clean

\* _clean_source_name without the lookup in variations
CleanSourceName_NoVariations(source) ==
    IF source = NULL \/ Len(source) = 0 THEN ""
    ELSE StripSuffix(Strip(Lower(source)))

CleanSourceName(source) ==
    IF source = NULL \/ Len(source) = 0 THEN ""
    ELSE LET clean == StripSuffix(Strip(Lower(source)))
         IN  IF clean \in DOMAIN variations THEN variations[clean] ELSE clean

(***************************************************************************)
(* BiasDetector.KNOWN_SOURCES, bias and credibility in tenths.             *)
(***************************************************************************)
Row(bias, credibility) == [political_bias |-> bias, credibility_score |-> credibility]

KNOWN_SOURCES ==
    ("guardian" :> Row(-6, 8)) @@ ("theguardian.com" :> Row(-6, 8)) @@
    ("cnn" :> Row(-4, 7)) @@ ("cnn.com" :> Row(-4, 7)) @@
    ("msnbc" :> Row(-7, 6)) @@ ("washingtonpost" :> Row(-5, 8)) @@
    ("nytimes" :> Row(-4, 9)) @@ ("huffpost" :> Row(-8, 6)) @@
    ("vox" :> Row(-7, 7)) @@
    ("foxnews" :> Row(7, 6)) @@ ("fox" :> Row(7, 6)) @@
    ("breitbart" :> Row(9, 4)) @@ ("dailywire" :> Row(8, 5)) @@
    ("nypost" :> Row(5, 6)) @@ ("wsj" :> Row(3, 9)) @@
    ("wallstreetjournal" :> Row(3, 9)) @@
    ("reuters" :> Row(0, 9)) @@ ("ap" :> Row(0, 9)) @@
    ("apnews" :> Row(0, 9)) @@ ("associated-press" :> Row(0, 9)) @@
    ("bbc" :> Row(-1, 8)) @@ ("bbc.com" :> Row(-1, 8)) @@
    ("npr" :> Row(-2, 8)) @@ ("pbs" :> Row(-1, 8)) @@
    ("usa-today" :> Row(1, 7)) @@ ("usatoday" :> Row(1, 7)) @@
    ("bloomberg" :> Row(0, 9)) @@ ("newsapi" :> Row(0, 8))

(***************************************************************************)
(* Conversions between integers and their decimal strings: str(int) and    *)
(* int(str) of the settings accessors.                                     *)
(***************************************************************************)
Digits == "0123456789"

RECURSIVE NatToStr(_)
NatToStr(n) ==
    IF n < 10 THEN CharAt(Digits, n + 1)
    ELSE NatToStr(n \div 10) \o CharAt(Digits, (n % 10) + 1)

\* str(n)
IntToStr(n) == IF n < 0 THEN "-" \o NatToStr(-n) ELSE NatToStr(n)

DigitValue(c) == (CHOOSE i \in 1..10 : CharAt(Digits, i) = c) - 1

RECURSIVE StrToNat(_)
StrToNat(s) ==
    IF Len(s) = 1 THEN DigitValue(s)
    ELSE 10 * StrToNat(SubSeq(s, 1, Len(s) - 1)) + DigitValue(CharAt(s, Len(s)))

\* int(s), for the strings str(int) writes
StrToInt(s) ==
    IF CharAt(s, 1) = "-" THEN -StrToNat(SubSeq(s, 2, Len(s))) ELSE StrToNat(s)

\* str(bool)
BoolToStr(b) == IF b THEN "True" ELSE "False"

(***************************************************************************)
(* Time.                                                                   *)
(***************************************************************************)
Res == 2        \* clock units in one unit of CURRENT_TIMESTAMP (a second)
DayLen == 4     \* clock units in timedelta(days=1)

TimeZones == {-Res, 0, Res}     \* offsets of local time that are sampled

\* SQLite's CURRENT_TIMESTAMP: UTC, cut to the second
CurrentTimestamp == (clock \div Res) * Res

\* Python's datetime.now(): naive local time
Now == clock + tz

(***************************************************************************)
(* AnalyticsDatabase: reads.                                               *)
(***************************************************************************)
EmptyTable == [k \in {} |-> NULL]

\* INSERT OR IGNORE: a row that is there is kept
Upsert_KeepsExisting(table, k, v) ==
    [x \in DOMAIN table \cup {k} |-> IF x \in DOMAIN table THEN table[x] ELSE v]

\* INSERT OR REPLACE into a table keyed by k
Upsert(table, k, v) == [x \in DOMAIN table \cup {k} |-> IF x = k THEN v ELSE table[x]]

get_setting(key, default) ==
    IF key \in DOMAIN analytics_settings THEN analytics_settings[key] ELSE default

\* is_tracking_enabled reading a key that set_tracking_enabled never writes
is_tracking_enabled_WrongKey == Lower(get_setting("enabled", "true")) = "true"

is_tracking_enabled == Lower(get_setting("tracking_enabled", "true")) = "true"

get_data_retention_days == StrToInt(get_setting("data_retention_days", "365"))

\* the strings of a finite set, ascending
RECURSIVE AscendingText(_)
AscendingText(S) ==
    IF S = {} THEN <<>>
    ELSE LET m == CHOOSE x \in S : \A y \in S : x = y \/ StrLess(x, y)
         IN  <<m>> \o AscendingText(S \ {m})

\* get_source_analysis(): SELECT ... FROM source_analysis ORDER BY source.  The
\* rows are written without last_updated, which nothing in the model reads.
get_source_analysis ==
    LET keys == AscendingText(DOMAIN source_analysis)
    IN  [i \in DOMAIN keys |->
            [source |-> keys[i],
             political_bias |-> source_analysis[keys[i]].political_bias,
             credibility_score |-> source_analysis[keys[i]].credibility_score]]

\* indexes of the rows a SELECT ... WHERE timestamp >= start_date sees
RowsSince(start_date) ==
    {i \in DOMAIN consumption_log : consumption_log[i].timestamp >= start_date}

\* SELECT col, COUNT(*) ... WHERE timestamp >= ? AND col IS NOT NULL GROUP BY col
CountBy(col, start_date) ==
    LET rows == {i \in RowsSince(start_date) : consumption_log[i][col] # NULL}
        keys == {consumption_log[i][col] : i \in rows}
    IN  [k \in keys |-> Cardinality({i \in rows : consumption_log[i][col] = k})]

\* ORDER BY count DESC: the orders in which the groups may come.  The query names
\* no second sort key, so SQL leaves the order of groups with equal counts open.
RECURSIVE OrdersFrom(_, _)
OrdersFrom(counts, keys) ==
    IF keys = {} THEN {<<>>}
    ELSE UNION {{<<k>> \o rest : rest \in OrdersFrom(counts, keys \ {k})} :
                    k \in {x \in keys : \A y \in keys : counts[x] >= counts[y]}}

OrderByCountDesc(counts) == OrdersFrom(counts, DOMAIN counts)

\* {row[col]: row["count"] for row in cursor.fetchall()}: a dict keeps the order
\* of the rows; the model writes it as the sequence of its (key, count) items
Dicts(counts) ==
    {[i \in DOMAIN order |-> <<order[i], counts[order[i]]>>] :
        order \in OrderByCountDesc(counts)}

\* DATE(timestamp)
Date(timestamp) == timestamp \div DayLen

\* the elements of a finite set of integers, ascending
RECURSIVE Ascending(_)
Ascending(S) ==
    IF S = {} THEN <<>>
    ELSE LET m == CHOOSE x \in S : \A y \in S : x <= y
         IN  <<m>> \o Ascending(S \ {m})

\* SELECT DATE(timestamp), COUNT(*) ... GROUP BY DATE(timestamp) ORDER BY date
DailyActivity(start_date) ==
    LET rows == RowsSince(start_date)
        dates == Ascending({Date(consumption_log[i].timestamp) : i \in rows})
    IN  [n \in DOMAIN dates |->
            <<dates[n],
              Cardinality({i \in rows : Date(consumption_log[i].timestamp) = dates[n]})>>]

\* the results get_consumption_stats(days) may return
get_consumption_stats(days) ==
    LET end_date == Now
        start_date == end_date - days * DayLen
    IN  {[period_days |-> days,
          total_activities |-> Cardinality(RowsSince(start_date)),
          activities_by_action |-> by_action,
          activities_by_source |-> by_source,
          activities_by_topic |-> by_topic,
          daily_activity |-> DailyActivity(start_date),
          start_date |-> start_date,
          end_date |-> end_date] :
            by_action \in Dicts(CountBy("action", start_date)),
            by_source \in Dicts(CountBy("source", start_date)),
            by_topic \in Dicts(CountBy("topic", start_date))}

(***************************************************************************)
(* AnalyticsDatabase: writes.  Each is one statement and one commit.       *)
(***************************************************************************)
\* the row INSERT INTO consumption_log writes; id is INTEGER PRIMARY KEY AUTOINCREMENT,
\* one more than the largest id the table ever held; the timestamp is the column default
LogRow(action, topic, source, keywords, duration) ==
    [id |-> sqlite_sequence + 1, timestamp |-> CurrentTimestamp, action |-> action,
     topic |-> topic, source |-> source, keywords |-> keywords, duration |-> duration]

log_consumption(action, topic, source, keywords, duration) ==
    /\ Len(consumption_log) < MaxLog
    /\ sqlite_sequence < MaxId
    /\ consumption_log' =
            Append(consumption_log, LogRow(action, topic, source, keywords, duration))
    /\ sqlite_sequence' = sqlite_sequence + 1

set_setting(key, value) ==
    analytics_settings' = Upsert(analytics_settings, key, value)

set_tracking_enabled(enabled) == set_setting("tracking_enabled", Lower(BoolToStr(enabled)))

set_data_retention_days(days) == set_setting("data_retention_days", IntToStr(days))

\* set_preference: INSERT OR REPLACE INTO user_preferences.  The table has no
\* UNIQUE column but id, which the statement does not give, so no row is replaced
set_preference(preference_type, preference_value, weight) ==
    /\ Len(user_preferences) < MaxPrefs
    /\ user_preferences' =
            Append(user_preferences,
                   [preference_type |-> preference_type,
                    preference_value |-> preference_value, weight |-> weight])

\* the rows DELETE FROM consumption_log WHERE timestamp < cutoff_date leaves
\* DELETE ... WHERE timestamp <= ?
Kept_Inclusive(cutoff_date) ==
    SelectSeq(consumption_log, LAMBDA row : ~(row.timestamp <= cutoff_date))

\* the rows DELETE ... WHERE timestamp < ? leaves
Kept(cutoff_date) ==
    SelectSeq(consumption_log, LAMBDA row : ~(row.timestamp < cutoff_date))

CleanupCutoff == Now - get_data_retention_days * DayLen

(***************************************************************************)
(* AnalyticsTracker.                                                       *)
(***************************************************************************)
\* _session_start_time is None, or <<t>> for the time t of start_session()
None == <<>>

Returned(op, value) == [op |-> op, value |-> value]

\* end_session()'s return value, in seconds
SessionDuration ==
    IF session_start_time = None THEN 0 ELSE (clock - session_start_time[1]) \div Res

StartSession ==
    /\ session_start_time' = <<clock>>
    /\ ret' = Returned("start_session", NULL)
    /\ UNCHANGED <<clock, tz, input, store>>

\* a track_* call that ends the session: the gate, end_session(), log_consumption()
\* a tracked event that reads the session but leaves it open
Track_KeepsSession(op, action, topic, source, keywords) ==
    /\ IF is_tracking_enabled
       THEN /\ log_consumption(action, topic, source, keywords, SessionDuration)
            /\ UNCHANGED session_start_time
       ELSE UNCHANGED <<consumption_log, sqlite_sequence, session_start_time>>
    /\ ret' = Returned(op, NULL)
    /\ UNCHANGED <<clock, tz, input, source_analysis, user_preferences, analytics_settings>>

Track(op, action, topic, source, keywords) ==
    /\ IF is_tracking_enabled
       THEN /\ log_consumption(action, topic, source, keywords, SessionDuration)
            /\ session_start_time' = None
       ELSE UNCHANGED <<consumption_log, sqlite_sequence, session_start_time>>
    /\ ret' = Returned(op, NULL)
    /\ UNCHANGED <<clock, tz, input, source_analysis, user_preferences, analytics_settings>>

TrackSearch(topic, source) == Track("track_search", "search", topic, source, NULL)

TrackView(topic, source) == Track("track_view", "view", topic, source, NULL)

\* track_summary does not call end_session()
TrackSummary(source_type, duration) ==
    /\ IF is_tracking_enabled
       THEN log_consumption("summary", NULL, NULL, "source_type:" \o source_type, duration)
       ELSE UNCHANGED <<consumption_log, sqlite_sequence>>
    /\ ret' = Returned("track_summary", NULL)
    /\ UNCHANGED <<clock, tz, input, source_analysis, user_preferences, analytics_settings,
                   session_start_time>>

TrackSourcesList(source, topic) == Track("track_sources_list", "sources", topic, source, NULL)

TrackConfigView == Track("track_config_view", "config", NULL, NULL, NULL)

TrackTopicsList == Track("track_topics_list", "list-topics", NULL, NULL, NULL)

TrackAnalyticsView(period, report_type) ==
    Track("track_analytics_view", "analytics", NULL, NULL,
          "period:" \o IntToStr(period) \o ",type:" \o report_type)

TrackExport(format_type, period) ==
    Track("track_export", "export", NULL, NULL,
          "format:" \o format_type \o ",period:" \o IntToStr(period))

TrackRecommendationsView(recommendation_type) ==
    Track("track_recommendations_view", "recommend", NULL, NULL,
          "type:" \o recommendation_type)

EnableTracking ==
    /\ set_tracking_enabled(TRUE)
    /\ ret' = Returned("enable_tracking", NULL)
    /\ UNCHANGED <<clock, tz, input, consumption_log, sqlite_sequence, source_analysis, user_preferences,
                   session_start_time>>

DisableTracking ==
    /\ set_tracking_enabled(FALSE)
    /\ ret' = Returned("disable_tracking", NULL)
    /\ UNCHANGED <<clock, tz, input, consumption_log, sqlite_sequence, source_analysis, user_preferences,
                   session_start_time>>

SetDataRetentionDays(days) ==
    /\ set_data_retention_days(days)
    /\ ret' = Returned("set_data_retention_days", NULL)
    /\ UNCHANGED <<clock, tz, input, consumption_log, sqlite_sequence, source_analysis, user_preferences,
                   session_start_time>>

GetUsageStats(days) ==
    /\ \E stats \in get_consumption_stats(days) : ret' = Returned("get_usage_stats", stats)
    /\ UNCHANGED <<clock, tz, input, store, session_start_time>>

\* cleanup_old_data(): returns cursor.rowcount
CleanupOldData ==
    /\ consumption_log' = Kept(CleanupCutoff)
    /\ ret' = Returned("cleanup_old_data", Len(consumption_log) - Len(Kept(CleanupCutoff)))
    /\ UNCHANGED <<clock, tz, input, sqlite_sequence, source_analysis, user_preferences, analytics_settings,
                   session_start_time>>

\* clear_all_data deleting the settings too
ResetAnalytics_ClearsSettings ==
    /\ consumption_log' = <<>>
    /\ user_preferences' = <<>>
    /\ source_analysis' = EmptyTable
    /\ analytics_settings' = EmptyTable
    /\ ret' = Returned("reset_analytics", NULL)
    /\ UNCHANGED <<clock, tz, input, sqlite_sequence, session_start_time>>

\* reset_analytics() -> clear_all_data(): three DELETEs; DELETE leaves the
\* AUTOINCREMENT counter and the settings alone
ResetAnalytics ==
    /\ consumption_log' = <<>>
    /\ user_preferences' = <<>>
    /\ source_analysis' = EmptyTable
    /\ ret' = Returned("reset_analytics", NULL)
    /\ UNCHANGED <<clock, tz, input, sqlite_sequence, analytics_settings, session_start_time>>

\* update_user_preference: gated like the intake
UpdateUserPreference(preference_type, preference_value, weight) ==
    /\ IF is_tracking_enabled
       THEN set_preference(preference_type, preference_value, weight)
       ELSE UNCHANGED user_preferences
    /\ ret' = Returned("update_user_preference", NULL)
    /\ UNCHANGED <<clock, tz, input, consumption_log, sqlite_sequence, source_analysis,
                   analytics_settings, session_start_time>>

\* is_enabled()
IsEnabled ==
    /\ ret' = Returned("is_enabled", is_tracking_enabled)
    /\ UNCHANGED <<clock, tz, input, store, session_start_time>>

\* a new handle whose construction writes the default settings again
NewTracker_WritesDefaults ==
    /\ session_start_time' = None
    /\ analytics_settings' = EmptyTable
    /\ ret' = Returned("new_tracker", NULL)
    /\ UNCHANGED <<clock, tz, input, consumption_log, sqlite_sequence, source_analysis,
                   user_preferences>>

\* a new AnalyticsTracker on the same database file: init_database() runs
\* CREATE TABLE IF NOT EXISTS, which leaves existing tables alone; the new
\* object has no session
NewTracker ==
    /\ session_start_time' = None
    /\ ret' = Returned("new_tracker", NULL)
    /\ UNCHANGED <<clock, tz, input, store>>

\* time passes
Tick ==
    /\ clock < MaxClock
    /\ clock' = clock + 1
    /\ ret' = Returned("tick", NULL)
    /\ UNCHANGED <<tz, input, store, session_start_time>>

(***************************************************************************)
(* The sampled inputs.                                                     *)
(***************************************************************************)
SearchArgs == {<<"technology", "newsapi">>, <<NULL, "guardian">>}
Periods == {0, 1, 30}
RetentionDays == {1}

(***************************************************************************)
(* The state after construction: AnalyticsDatabase.init_database creates   *)
(* empty tables, BiasDetector.__init__ seeds source_analysis.              *)
(***************************************************************************)
Constructed ==
    /\ clock = 0
    /\ consumption_log = <<>>
    /\ sqlite_sequence = 0
    /\ source_analysis = KNOWN_SOURCES
    /\ user_preferences = <<>>
    /\ analytics_settings = EmptyTable
    /\ session_start_time = None
    /\ ret = Returned("init", NULL)

Init ==
    /\ Constructed
    /\ tz \in TimeZones
    /\ input = None

\* the event store: recording, statistics, retention, reset
Next ==
    \/ Tick
    \/ \E args \in SearchArgs : TrackSearch(args[1], args[2])
    \/ TrackSummary("url", 0)
    \/ \E days \in Periods : GetUsageStats(days)
    \/ \E days \in RetentionDays : SetDataRetentionDays(days)
    \/ CleanupOldData
    \/ ResetAnalytics

Spec == Init /\ [][Next]_vars

\* the tracking intake, which reads no local time
InitTracker == Init /\ tz = 0

NextTracker ==
    \/ StartSession
    \/ EnableTracking
    \/ DisableTracking
    \/ \E args \in SearchArgs : TrackSearch(args[1], args[2])
    \/ TrackView(NULL, "guardian")
    \/ TrackSummary("url", 0)
    \/ TrackSourcesList("newsapi", NULL)
    \/ TrackConfigView
    \/ TrackTopicsList
    \/ TrackAnalyticsView(30, "basic")
    \/ TrackExport("json", 30)
    \/ TrackRecommendationsView("sources")
    \/ ResetAnalytics

SpecTracker == InitTracker /\ [][NextTracker]_vars

(***************************************************************************)
(* BiasDetector.                                                           *)
(***************************************************************************)
\* seeding that keeps the row of a built-in key that is already there
InitializeKnownSources_IfMissing ==
    /\ source_analysis' =
            [k \in DOMAIN source_analysis \cup DOMAIN KNOWN_SOURCES |->
                IF k \in DOMAIN source_analysis THEN source_analysis[k] ELSE KNOWN_SOURCES[k]]
    /\ ret' = Returned("bias_detector", NULL)
    /\ UNCHANGED <<clock, tz, input, consumption_log, sqlite_sequence, user_preferences, analytics_settings,
                   session_start_time>>

\* _initialize_known_sources: one INSERT OR REPLACE for each built-in key
InitializeKnownSources ==
    /\ source_analysis' =
            [k \in DOMAIN source_analysis \cup DOMAIN KNOWN_SOURCES |->
                IF k \in DOMAIN KNOWN_SOURCES THEN KNOWN_SOURCES[k] ELSE source_analysis[k]]
    /\ ret' = Returned("bias_detector", NULL)
    /\ UNCHANGED <<clock, tz, input, consumption_log, sqlite_sequence, user_preferences, analytics_settings,
                   session_start_time>>

\* update_source_analysis called on the store
UpdateSourceAnalysis(source, political_bias, credibility_score) ==
    /\ source_analysis' = Upsert(source_analysis, source, Row(political_bias, credibility_score))
    /\ ret' = [op |-> "update_source_analysis", value |-> NULL,
               args |-> <<source, political_bias, credibility_score>>]
    /\ UNCHANGED <<clock, tz, input, consumption_log, sqlite_sequence, user_preferences, analytics_settings,
                   session_start_time>>

GetSourceAnalysis ==
    /\ ret' = Returned("get_source_analysis", get_source_analysis)
    /\ UNCHANGED <<clock, tz, input, store, session_start_time>>

\* _fetch_from_external_api: a placeholder that returns None
FetchFromExternalApi(source) == None

\* the neutral scores get_source_bias falls back to
Neutral == Row(0, 5)

\* a lookup that falls back to the built-in table held by the classifier
SourceBias_BuiltInFallback(source) ==
    LET clean_source == CleanSourceName(source)
    IN  IF clean_source \in DOMAIN source_analysis THEN source_analysis[clean_source]
        ELSE IF clean_source \in DOMAIN KNOWN_SOURCES THEN KNOWN_SOURCES[clean_source]
        ELSE Neutral

\* what get_source_bias(source) returns
SourceBias(source) ==
    LET clean_source == CleanSourceName(source)
    IN  IF clean_source \in DOMAIN source_analysis THEN source_analysis[clean_source]
        ELSE IF FetchFromExternalApi(clean_source) # None
             THEN FetchFromExternalApi(clean_source)
        ELSE Neutral

\* get_source_bias caching whatever it returns, the neutral fallback included
GetSourceBias_CachesFallback(source) ==
    /\ ret' = Returned("get_source_bias", SourceBias(source))
    /\ source_analysis' = Upsert(source_analysis, CleanSourceName(source), SourceBias(source))
    /\ UNCHANGED <<clock, tz, input, consumption_log, sqlite_sequence, user_preferences,
                   analytics_settings, session_start_time>>

\* get_source_bias(source): a row the external API gave is cached
GetSourceBias(source) ==
    LET clean_source == CleanSourceName(source)
    IN  /\ ret' = Returned("get_source_bias", SourceBias(source))
        /\ IF clean_source \notin DOMAIN source_analysis
              /\ FetchFromExternalApi(clean_source) # None
           THEN source_analysis' =
                    Upsert(source_analysis, clean_source, FetchFromExternalApi(clean_source))
           ELSE UNCHANGED source_analysis
        /\ UNCHANGED <<clock, tz, input, consumption_log, sqlite_sequence, user_preferences,
                       analytics_settings, session_start_time>>

\* _clean_source_name(source), called on its own
CleanSource(source) ==
    /\ ret' = Returned("clean_source_name", CleanSourceName(source))
    /\ UNCHANGED <<clock, tz, input, store, session_start_time>>

(***************************************************************************)
(* Arithmetic of analyze_source_diversity.  A list of n < 16 values in     *)
(* tenths has no mean, ratio or deviation that lies exactly between two    *)
(* thousandths, so rounding to the nearest thousandth is round(x, 3).      *)
(***************************************************************************)
RECURSIVE SumTo(_, _)
SumTo(seq, n) == IF n = 0 THEN 0 ELSE seq[n] + SumTo(seq, n - 1)

Sum(seq) == SumTo(seq, Len(seq))

\* the integer nearest to a / b, for b > 0
RoundDiv(a, b) == (2 * a + b) \div (2 * b)

\* scale * sqrt(n / d) < k + 1/2, for d > 0
SqrtBelowHalf(k, n, d, scale) == 4 * scale * scale * n < (2 * k + 1) * (2 * k + 1) * d

\* the integer nearest to scale * sqrt(n / d), for n >= 0 and d > 0: the least k
\* with SqrtBelowHalf, found by doubling and bisection
RECURSIVE RoundSqrtIn(_, _, _, _, _)
RoundSqrtIn(lo, hi, n, d, scale) ==
    IF ~SqrtBelowHalf(hi, n, d, scale) THEN RoundSqrtIn(hi + 1, 2 * hi + 1, n, d, scale)
    ELSE IF lo = hi THEN lo
    ELSE LET mid == (lo + hi) \div 2
         IN  IF SqrtBelowHalf(mid, n, d, scale)
             THEN RoundSqrtIn(lo, mid, n, d, scale)
             ELSE RoundSqrtIn(mid + 1, hi, n, d, scale)

RoundSqrt(n, d, scale) == RoundSqrtIn(0, 0, n, d, scale)

\* min() left out: the deviation is not capped
Min_NoCap(a, b) == a

Min(a, b) == IF a < b THEN a ELSE b

\* statistics.stdev(bias_scores), in thousandths, of biases in tenths
Stdev(bias_scores) ==
    LET n == Len(bias_scores)
        sq == [i \in 1..n |-> bias_scores[i] * bias_scores[i]]
    IN  RoundSqrt(n * Sum(sq) - Sum(bias_scores) * Sum(bias_scores), n * (n - 1), 100)

SeqMin(seq) == CHOOSE x \in {seq[i] : i \in DOMAIN seq} : \A i \in DOMAIN seq : x <= seq[i]
SeqMax(seq) == CHOOSE x \in {seq[i] : i \in DOMAIN seq} : \A i \in DOMAIN seq : x >= seq[i]

IsLeft(bias) == bias < -3
IsRight(bias) == bias > 3

\* the counts of the loop over sources
PoliticalBalance(bias_scores) ==
    [left |-> Cardinality({i \in DOMAIN bias_scores : IsLeft(bias_scores[i])}),
     center |-> Cardinality({i \in DOMAIN bias_scores :
                                ~IsLeft(bias_scores[i]) /\ ~IsRight(bias_scores[i])}),
     right |-> Cardinality({i \in DOMAIN bias_scores : IsRight(bias_scores[i])})]

\* get_source_bias caches only what the external API returns, which is nothing, so
\* the loop over sources leaves the store as it is
analyze_source_diversity(sources) ==
    IF sources = <<>>
    THEN [diversity_score |-> 0,
          political_balance |-> [left |-> 0, center |-> 0, right |-> 0],
          average_credibility |-> 0,
          source_count |-> 0]
    ELSE LET bias_scores == [i \in DOMAIN sources |-> SourceBias(sources[i]).political_bias]
             credibility_scores ==
                [i \in DOMAIN sources |-> SourceBias(sources[i]).credibility_score]
             diversity_score == IF Len(bias_scores) > 1 THEN Stdev(bias_scores) ELSE 0
             normalized_diversity == Min(diversity_score, 1000)
         IN  [diversity_score |-> normalized_diversity,
              political_balance |-> PoliticalBalance(bias_scores),
              average_credibility |->
                  RoundDiv(100 * Sum(credibility_scores), Len(credibility_scores)),
              average_bias |-> RoundDiv(100 * Sum(bias_scores), Len(bias_scores)),
              source_count |-> Len(sources),
              bias_distribution |-> [min |-> 100 * SeqMin(bias_scores),
                                     max |-> 100 * SeqMax(bias_scores),
                                     std_dev |-> diversity_score]]

\* count / total_sources > tenths / 10
RatioAbove(count, total_sources, tenths) == 10 * count > tenths * total_sources

generate_balance_recommendations(political_balance, total_sources) ==
    IF total_sources = 0 THEN <<"Start reading news from diverse sources">>
    ELSE (IF RatioAbove(political_balance.left, total_sources, 6)
          THEN <<"Consider reading more centrist and conservative sources",
                 "Try: Reuters, AP News, Wall Street Journal">>
          ELSE IF RatioAbove(political_balance.right, total_sources, 6)
          THEN <<"Consider reading more centrist and liberal sources",
                 "Try: Reuters, AP News, NPR, BBC">>
          ELSE IF RatioAbove(political_balance.center, total_sources, 8)
          THEN <<"Consider reading diverse perspectives from different political viewpoints",
                 "Try mixing sources like Guardian (left), WSJ (right), and Reuters (center)">>
          ELSE <<>>)
         \o
         (IF /\ political_balance.left = political_balance.center
             /\ political_balance.center = political_balance.right
             /\ total_sources < 3
          THEN <<"Try reading from at least 3-5 different sources for better coverage">>
          ELSE <<>>)

TotalSources(balance) == balance.left + balance.center + balance.right

\* the 0.6 of the recommendations used where detect_echo_chamber has 0.7
LeftExtreme_At6(balance) ==
    TotalSources(balance) > 0 /\ RatioAbove(balance.left, TotalSources(balance), 6)
RightExtreme_At6(balance) ==
    TotalSources(balance) > 0 /\ RatioAbove(balance.right, TotalSources(balance), 6)

\* left_ratio > 0.7, right_ratio > 0.7, center_ratio > 0.9, inside "if total_sources > 0"
LeftExtreme(balance) ==
    TotalSources(balance) > 0 /\ RatioAbove(balance.left, TotalSources(balance), 7)
RightExtreme(balance) ==
    TotalSources(balance) > 0 /\ RatioAbove(balance.right, TotalSources(balance), 7)
CenterFocused(balance) ==
    TotalSources(balance) > 0 /\ RatioAbove(balance.center, TotalSources(balance), 9)

\* round(ratio if total_sources > 0 else 0, 3)
Ratio(count, total_sources) ==
    IF total_sources > 0 THEN RoundDiv(1000 * count, total_sources) ELSE 0

EchoChamber(analysis, threshold) ==
    LET balance == analysis.political_balance
        total == TotalSources(balance)
    IN  [is_echo_chamber |->
            /\ total > 0
            /\ \/ LeftExtreme(balance)
               \/ RightExtreme(balance)
               \/ analysis.diversity_score < threshold,
         echo_chamber_type |->
            IF LeftExtreme(balance) THEN "left-leaning"
            ELSE IF RightExtreme(balance) THEN "right-leaning"
            ELSE IF CenterFocused(balance) THEN "center-focused"
            ELSE "balanced",
         diversity_score |-> analysis.diversity_score,
         political_distribution |->
            [left_ratio |-> Ratio(balance.left, total),
             center_ratio |-> Ratio(balance.center, total),
             right_ratio |-> Ratio(balance.right, total)],
         recommendations |-> generate_balance_recommendations(balance, total)]

detect_echo_chamber(recent_sources, threshold) ==
    EchoChamber(analyze_source_diversity(recent_sources), threshold)

AnalyzeSourceDiversity(sources) ==
    /\ ret' = Returned("analyze_source_diversity", analyze_source_diversity(sources))
    /\ UNCHANGED <<clock, tz, input, store, session_start_time>>

DetectEchoChamber(recent_sources, threshold) ==
    /\ ret' = Returned("detect_echo_chamber", detect_echo_chamber(recent_sources, threshold))
    /\ UNCHANGED <<clock, tz, input, store, session_start_time>>

(***************************************************************************)
(* The classifier on one source name.                                      *)
(***************************************************************************)
\* the sequences over S of length at most n
SeqsUpTo(S, n) == UNION {[1..k -> S] : k \in 0..n}

RECURSIVE Concat(_)
Concat(strs) == IF strs = <<>> THEN "" ELSE Head(strs) \o Concat(Tail(strs))

BaseNames ==
    DOMAIN KNOWN_SOURCES \cup DOMAIN variations
        \cup {"", "x", "CNN", "Fox", "The-Guardian", "unknown-source"}

Pads == {"", " "}

\* a name, in some case, padded, with up to MaxSuffixes domain suffixes
SourceNames ==
    {lead \o base \o mid \o Concat(sufs) :
        lead \in Pads, base \in BaseNames, mid \in Pads,
        sufs \in SeqsUpTo({suffixes[i] : i \in DOMAIN suffixes}, MaxSuffixes)}

InitSource ==
    /\ Constructed
    /\ tz = 0
    /\ input \in [source : SourceNames]

NextSource ==
    \/ CleanSource(input.source)
    \/ GetSourceBias(input.source)
    \/ ResetAnalytics
    \/ InitializeKnownSources

SpecSource == InitSource /\ [][NextSource]_vars

(***************************************************************************)
(* The classifier on a list of sources.                                    *)
(***************************************************************************)
OneSided == {"cnn", "msnbc", "huffpost", "guardian"}
Mixed == {"huffpost", "reuters", "wsj", "breitbart"}
Balanced == <<"cnn", "reuters", "wsj", "bbc">>
Centrist == <<"reuters", "ap">>

SourceLists ==
    SeqsUpTo(OneSided, MaxSources) \cup SeqsUpTo(Mixed, MaxSources) \cup {Balanced, Centrist}

DefaultThreshold == 300     \* threshold: float = 0.3
Thresholds == {0, DefaultThreshold, 1001}

InitSources ==
    /\ Constructed
    /\ tz = 0
    /\ input \in [sources : SourceLists, threshold : Thresholds]

NextSources ==
    \/ AnalyzeSourceDiversity(input.sources)
    \/ DetectEchoChamber(input.sources, input.threshold)
    \/ UpdateSourceAnalysis("reuters", -3, 9)
    \/ ResetAnalytics
    \/ InitializeKnownSources

SpecSources == InitSources /\ [][NextSources]_vars

(***************************************************************************)
(* The tracking intake, checked under SpecTracker.                         *)
(***************************************************************************)
\* the action each intake call records
TrackAction ==
    ("track_search" :> "search") @@ ("track_view" :> "view") @@
    ("track_summary" :> "summary") @@ ("track_sources_list" :> "sources") @@
    ("track_config_view" :> "config") @@ ("track_topics_list" :> "list-topics") @@
    ("track_analytics_view" :> "analytics") @@ ("track_export" :> "export") @@
    ("track_recommendations_view" :> "recommend")

\* the tracking_enabled setting as stored: false, or true (true when never set)
TrackingOff ==
    /\ "tracking_enabled" \in DOMAIN analytics_settings
    /\ analytics_settings["tracking_enabled"] = "false"
TrackingOn ==
    \/ "tracking_enabled" \notin DOMAIN analytics_settings
    \/ analytics_settings["tracking_enabled"] = "true"

\* C1: a tracking intake call made while the tracking_enabled setting is false
\* returns None and leaves the consumption log as it was; made while the setting
\* is true it appends exactly one event, whose action is the action of the call.
C1_TrackingGate ==
    [][ret'.op \in DOMAIN TrackAction =>
        /\ ret'.value = NULL
        /\ TrackingOff => consumption_log' = consumption_log
        /\ TrackingOn =>
            /\ Len(consumption_log') = Len(consumption_log) + 1
            /\ SubSeq(consumption_log', 1, Len(consumption_log)) = consumption_log
            /\ consumption_log'[Len(consumption_log')].action = TrackAction[ret'.op]]_vars

\* two calls were recorded while tracking was on, then track_export was called
\* with tracking off and recorded nothing
C1_Witness ==
    /\ ret.op = "track_export"
    /\ TrackingOff
    /\ Len(consumption_log) = 2
    /\ consumption_log[1].action = "search"
    /\ consumption_log[2].action = "recommend"

(***************************************************************************)
(* The event store, checked under Spec.                                    *)
(***************************************************************************)
\* the stored events whose timestamp lies in [now - days, now]; timestamps and now
\* are both instants of the one clock
InWindow(days) ==
    {i \in DOMAIN consumption_log :
        /\ clock - days * DayLen <= consumption_log[i].timestamp
        /\ consumption_log[i].timestamp <= clock}

\* for each non-null value of the column, the number of the rows carrying it
Tally(col, rows) ==
    [k \in {consumption_log[i][col] : i \in rows} \ {NULL} |->
        Cardinality({i \in rows : consumption_log[i][col] = k})]

\* the mapping a dict is, whatever the order of its items
AsMap(items) ==
    [k \in {items[i][1] : i \in DOMAIN items} |->
        items[CHOOSE i \in DOMAIN items : items[i][1] = k][2]]

StatsOfWindow(stats) ==
    /\ stats.total_activities = Cardinality(InWindow(stats.period_days))
    /\ AsMap(stats.activities_by_action) = Tally("action", InWindow(stats.period_days))
    /\ AsMap(stats.activities_by_source) = Tally("source", InWindow(stats.period_days))
    /\ AsMap(stats.activities_by_topic) = Tally("topic", InWindow(stats.period_days))

\* C2: after any sequence of record, cleanup and reset operations, the statistics
\* returned for a period count the stored events whose timestamp lies in the
\* window [now - period_days, now]: total_activities is their number, and the
\* maps by action, source and topic give for each non-null key the number of
\* those events that carry it.
C2_StatsCountWindow ==
    ret.op = "get_usage_stats" => StatsOfWindow(ret.value)

\* where local time is UTC the statistics do count the window
StatsCountWindowInUTC ==
    (ret.op = "get_usage_stats" /\ tz = 0) => StatsOfWindow(ret.value)

\* the example of three events: two searches and a summary
StatsExample ==
    (/\ ret.op = "get_usage_stats"
     /\ ret.value.period_days = 30
     /\ Len(consumption_log) = 3
     /\ \E i, j, k \in 1..3 :
            /\ {i, j, k} = 1..3
            /\ consumption_log[i].action = "search" /\ consumption_log[i].source = "newsapi"
            /\ consumption_log[j].action = "search" /\ consumption_log[j].source = "guardian"
            /\ consumption_log[k].action = "summary")
    => /\ ret.value.total_activities = 3
       /\ AsMap(ret.value.activities_by_action) = ("search" :> 2) @@ ("summary" :> 1)
       /\ AsMap(ret.value.activities_by_source) = ("newsapi" :> 1) @@ ("guardian" :> 1)

\* the data_retention_days setting as stored (365 when never set)
RetentionSetting ==
    IF "data_retention_days" \in DOMAIN analytics_settings
    THEN StrToInt(analytics_settings["data_retention_days"])
    ELSE 365

\* the stored events older than now minus the retention period
Expired ==
    {i \in DOMAIN consumption_log :
        consumption_log[i].timestamp < clock - RetentionSetting * DayLen}

CleanupIsExact ==
    /\ consumption_log' =
            SelectSeq(consumption_log,
                      LAMBDA row : row.timestamp >= clock - RetentionSetting * DayLen)
    /\ ret'.value = Cardinality(Expired)

\* a cleanup that directly follows a cleanup deletes nothing and returns 0
CleanupTwice ==
    ret.op = "cleanup_old_data" => (ret'.value = 0 /\ consumption_log' = consumption_log)

\* C10: cleanup deletes exactly the events whose timestamp is older than now minus
\* the data_retention_days setting and returns the number of events it deleted; a
\* second cleanup with no write, no change of the setting and no change of the
\* clock in between deletes nothing and returns 0.
C10_CleanupExact ==
    [][ret'.op = "cleanup_old_data" => (CleanupIsExact /\ CleanupTwice)]_vars

\* where local time is UTC cleanup is exact
CleanupExactInUTC ==
    [][(ret'.op = "cleanup_old_data" /\ tz = 0) => (CleanupIsExact /\ CleanupTwice)]_vars

\* in every time zone the second of two cleanups in a row deletes nothing
CleanupIdempotent ==
    [][ret'.op = "cleanup_old_data" => CleanupTwice]_vars

(***************************************************************************)
(* The classifier on a list of sources, checked under SpecSources.         *)
(***************************************************************************)
\* the store as BiasDetector.__init__ seeds it
FreshlySeeded == source_analysis = KNOWN_SOURCES

\* the bias each source of the list resolves to, in tenths
Biases(sources) == [i \in DOMAIN sources |-> SourceBias(sources[i]).political_bias]

LeftCount(sources) == Cardinality({i \in DOMAIN sources : Biases(sources)[i] < -3})
RightCount(sources) == Cardinality({i \in DOMAIN sources : Biases(sources)[i] > 3})
CenterCount(sources) == Len(sources) - LeftCount(sources) - RightCount(sources)

\* the ratio count / len(sources) exceeds tenths / 10; a ratio of the empty list is 0
Exceeds(count, sources, tenths) ==
    IF Len(sources) = 0 THEN 0 > tenths ELSE 10 * count > tenths * Len(sources)

\* C3: on a freshly constructed classifier and with the default threshold 0.3, a
\* list drawn entirely from {cnn, msnbc, huffpost, guardian} is an echo chamber of
\* type left-leaning, and the list [cnn, reuters, wsj, bbc] is not an echo chamber.
C3_EchoChamberExamples ==
    (ret.op = "detect_echo_chamber" /\ input.threshold = DefaultThreshold /\ FreshlySeeded)
    => /\ (/\ input.sources # <<>>
           /\ \A i \in DOMAIN input.sources : input.sources[i] \in OneSided)
          => /\ ret.value.is_echo_chamber
             /\ ret.value.echo_chamber_type = "left-leaning"
       /\ input.sources = Balanced => ~ret.value.is_echo_chamber

\* the half of C3 about the one-sided lists
OneSidedIsLeftLeaning ==
    (/\ ret.op = "detect_echo_chamber" /\ input.threshold = DefaultThreshold /\ FreshlySeeded
     /\ input.sources # <<>>
     /\ \A i \in DOMAIN input.sources : input.sources[i] \in OneSided)
    => /\ ret.value.is_echo_chamber
       /\ ret.value.echo_chamber_type = "left-leaning"

\* the rule of C4: an extreme left ratio, an extreme right ratio or a low diversity
EchoRule(sources, threshold) ==
    \/ Exceeds(LeftCount(sources), sources, 7)
    \/ Exceeds(RightCount(sources), sources, 7)
    \/ analyze_source_diversity(sources).diversity_score < threshold

ExpectedType(sources) ==
    IF Exceeds(LeftCount(sources), sources, 7) THEN "left-leaning"
    ELSE IF Exceeds(RightCount(sources), sources, 7) THEN "right-leaning"
    ELSE IF Exceeds(CenterCount(sources), sources, 9) THEN "center-focused"
    ELSE "balanced"

\* C5: for every source list echo_chamber_type is left-leaning if the left ratio
\* exceeds 0.7, else right-leaning if the right ratio exceeds 0.7, else
\* center-focused if the center ratio exceeds 0.9, else balanced; and a type of
\* left-leaning or right-leaning comes with is_echo_chamber = True.
C5_EchoChamberType ==
    ret.op = "detect_echo_chamber"
    => /\ ret.value.echo_chamber_type = ExpectedType(input.sources)
       /\ ret.value.echo_chamber_type \in {"left-leaning", "right-leaning"}
          => ret.value.is_echo_chamber

\* is_echo_chamber = True with the type center-focused
C5_Witness ==
    /\ ret.op = "detect_echo_chamber"
    /\ input.sources # <<>>
    /\ ret.value.is_echo_chamber
    /\ ret.value.echo_chamber_type = "center-focused"

\* is_echo_chamber = True with the type balanced
EchoChamberOfTypeBalanced ==
    /\ ret.op = "detect_echo_chamber"
    /\ input.sources # <<>>
    /\ ret.value.is_echo_chamber
    /\ ret.value.echo_chamber_type = "balanced"

\* C6: for every source list, duplicates counted, the political_balance counts
\* are the numbers of sources with bias < -0.3 (left), bias > 0.3 (right) and the
\* rest (center), and sum to len(sources); diversity_score lies in [0, 1]; it is
\* 0.0 when the list has fewer than 2 sources or all resolved biases are equal
\* ([reuters, ap] gives 0.0 and the balance 0, 2, 0); the empty list gives
\* diversity_score 0.0, an all-zero balance, average_credibility 0.0 and
\* source_count 0.
C6_DiversityAnalysis ==
    ret.op = "analyze_source_diversity"
    => /\ ret.value.political_balance =
            [left |-> LeftCount(input.sources),
             center |-> CenterCount(input.sources),
             right |-> RightCount(input.sources)]
       /\ TotalSources(ret.value.political_balance) = Len(input.sources)
       /\ ret.value.diversity_score >= 0
       /\ ret.value.diversity_score <= 1000
       /\ (\/ Len(input.sources) < 2
           \/ \A i, j \in DOMAIN input.sources :
                Biases(input.sources)[i] = Biases(input.sources)[j])
          => ret.value.diversity_score = 0
       /\ (input.sources = Centrist /\ FreshlySeeded)
          => /\ ret.value.diversity_score = 0
             /\ ret.value.political_balance = [left |-> 0, center |-> 2, right |-> 0]
       /\ input.sources = <<>>
          => ret.value = [diversity_score |-> 0,
                          political_balance |-> [left |-> 0, center |-> 0, right |-> 0],
                          average_credibility |-> 0,
                          source_count |-> 0]

\* a list whose deviation is above 1 is given the diversity_score 1.0
C6_Witness ==
    /\ ret.op = "analyze_source_diversity"
    /\ Len(input.sources) >= 2
    /\ ret.value.bias_distribution.std_dev > 1000
    /\ ret.value.diversity_score = 1000
    /\ ret.value.political_balance.left > 0
    /\ ret.value.political_balance.right > 0

(***************************************************************************)
(* The classifier on one source name, checked under SpecSource.            *)
(***************************************************************************)
\* C7: get_source_bias returns a pair (bias, credibility) for any input string,
\* the empty string included; when the normalized key has no row in
\* source_analysis it returns exactly (0.0, 0.5) and leaves source_analysis
\* unchanged, so that looking an unknown source up again never adds a row.
C7_MissIsReadOnly ==
    [][ret'.op = "get_source_bias" =>
        /\ DOMAIN ret'.value = {"political_bias", "credibility_score"}
        /\ CleanSourceName(input.source) \notin DOMAIN source_analysis
           => /\ ret'.value = [political_bias |-> 0, credibility_score |-> 5]
              /\ source_analysis' = source_analysis]_vars

\* an unknown source was looked up in the seeded store: neutral, and no row for it
C7_Witness ==
    /\ ret.op = "get_source_bias"
    /\ input.source = "unknown-source"
    /\ ret.value = [political_bias |-> 0, credibility_score |-> 5]
    /\ FreshlySeeded

\* C8: normalization is idempotent: normalize(normalize(x)) = normalize(x) for
\* every source string x, strings that end in two listed suffixes included.
C8_NormalizeIdempotent ==
    ret.op = "clean_source_name" => CleanSourceName(ret.value) = ret.value

\* the names the claim gives, and the built-in key each resolves to
ResolvesTo ==
    ("cnn" :> "cnn") @@ ("reuters" :> "reuters") @@ ("CNN.com" :> "cnn") @@
    ("the-guardian" :> "guardian") @@ ("new-york-times" :> "nytimes") @@
    ("associated-press" :> "ap") @@ ("usa-today" :> "usatoday")

\* C9: on a store freshly seeded by the construction of the classifier,
\* get_source_bias returns the built-in pair for every key of the built-in table
\* and for every alias, suffix and case variant that normalizes to a built-in
\* key: cnn gives (-0.4, 0.7), reuters (0.0, 0.9), and CNN.com, the-guardian,
\* new-york-times, associated-press and usa-today give the values of cnn,
\* guardian, nytimes, ap and usatoday.
C9_BuiltInLookup ==
    (ret.op = "get_source_bias" /\ FreshlySeeded)
    => /\ input.source \in DOMAIN KNOWN_SOURCES => ret.value = KNOWN_SOURCES[input.source]
       /\ CleanSourceName(input.source) \in DOMAIN KNOWN_SOURCES
          => ret.value = KNOWN_SOURCES[CleanSourceName(input.source)]
       /\ input.source \in DOMAIN ResolvesTo
          => ret.value = KNOWN_SOURCES[ResolvesTo[input.source]]
       /\ input.source = "cnn"
          => ret.value = [political_bias |-> -4, credibility_score |-> 7]
       /\ input.source = "reuters"
          => ret.value = [political_bias |-> 0, credibility_score |-> 9]

\* CNN.com was looked up in the seeded store and got the values of cnn
C9_Witness ==
    /\ ret.op = "get_source_bias"
    /\ FreshlySeeded
    /\ input.source = "CNN.com"
    /\ ret.value = [political_bias |-> -4, credibility_score |-> 7]

(***************************************************************************)
(* BiasDetector.get_bias_summary and the health score of InsightsGenerator. *)
(* A Python dict with fixed keys is a record; {} is the record with no      *)
(* field.                                                                   *)
(***************************************************************************)
EmptyDict == [k \in {} |-> NULL]

\* dict.get(key, default)
Get(dict, key, default) == IF key \in DOMAIN dict THEN dict[key] ELSE default

\* list(d.keys()), for a dict written as the sequence of its items
Keys(items) == [i \in DOMAIN items |-> items[i][1]]

\* get_bias_summary, from the result of its get_consumption_stats(days)
get_bias_summary(stats) ==
    LET sources == Keys(stats.activities_by_source)
        diversity == analyze_source_diversity(sources)
    IN  IF sources = <<>>
        THEN [period_days |-> stats.period_days,
              sources_analyzed |-> 0,
              diversity_analysis |-> EmptyDict,
              echo_chamber_analysis |-> EmptyDict,
              recommendations |-> <<"Start reading news to get personalized bias analysis">>]
        ELSE [period_days |-> stats.period_days,
              sources_analyzed |-> Len(sources),
              sources_used |-> sources,
              diversity_analysis |-> diversity,
              echo_chamber_analysis |-> detect_echo_chamber(sources, DefaultThreshold),
              overall_bias_score |-> Get(diversity, "average_bias", 0),
              credibility_score |-> Get(diversity, "average_credibility", 500)]

\* A factor of the health score is a fraction <<numerator, denominator>>.
Max(a, b) == IF a > b THEN a ELSE b

\* factors["activity_level"], from total_activities and len(daily_activity)
ActivityLevel(total, days) ==
    LET m == Max(days, 1)
    IN  IF 2 * total >= m /\ total <= 3 * m THEN <<1, 1>>
        ELSE IF 2 * total < m THEN <<2 * total, m>>
        ELSE IF 30 * m >= total THEN <<3 * m, total>>
        ELSE <<1, 10>>

\* factors["topic_coverage"]: min(1.0, topics_covered / 7)
TopicCoverage(topics_covered) == <<Min(topics_covered, 7), 7>>

\* the factors dict of _calculate_consumption_health_score
Factors(stats, bias_summary) ==
    [activity_level |-> ActivityLevel(stats.total_activities, Len(stats.daily_activity)),
     source_diversity |-> <<Get(bias_summary.diversity_analysis, "diversity_score", 0), 1000>>,
     topic_coverage |-> TopicCoverage(Len(stats.activities_by_topic)),
     echo_chamber |->
        IF Get(bias_summary.echo_chamber_analysis, "is_echo_chamber", FALSE)
        THEN <<0, 1>> ELSE <<1, 1>>,
     credibility |-> <<Get(bias_summary.diversity_analysis, "average_credibility", 500), 1000>>]

\* weights, in hundredths
weights ==
    [activity_level |-> 20, source_diversity |-> 30, topic_coverage |-> 20,
     echo_chamber |-> 15, credibility |-> 15]

\* a denominator every factor can be brought to
HealthDen(f) == f.activity_level[2] * 1000 * 7

\* health_score = sum(factors[factor] * weights[factor]), as the numerator of a
\* fraction over 100 * HealthDen(f)
HealthNum(f) ==
    LET den == HealthDen(f)
        part(name) == weights[name] * f[name][1] * (den \div f[name][2])
    IN  part("activity_level") + part("source_diversity") + part("topic_coverage")
        + part("echo_chamber") + part("credibility")

\* health_score >= tenths / 10
HealthAtLeast(f, tenths) == 10 * HealthNum(f) >= tenths * 100 * HealthDen(f)

\* _calculate_consumption_health_score; the interpretation is taken from the score
\* before it is rounded.  The message and improvement_priority are left out.
calculate_consumption_health_score(stats, bias_summary) ==
    LET f == Factors(stats, bias_summary)
    IN  [overall_score |-> RoundDiv(10 * HealthNum(f), HealthDen(f)),
         interpretation |->
            IF HealthAtLeast(f, 8) THEN "excellent"
            ELSE IF HealthAtLeast(f, 6) THEN "good"
            ELSE IF HealthAtLeast(f, 4) THEN "fair"
            ELSE "needs_improvement",
         factor_scores |-> [k \in DOMAIN f |-> RoundDiv(1000 * f[k][1], f[k][2])]]

\* generate_consumption_report(days)["health_score"]
HealthScore(days) ==
    /\ \E stats \in get_consumption_stats(days) :
            ret' = Returned("health_score",
                            calculate_consumption_health_score(stats, get_bias_summary(stats)))
    /\ UNCHANGED <<clock, tz, input, store, session_start_time>>

\* the history the insights are drawn from
InsightArgs ==
    {<<"technology", "ap">>, <<NULL, "bbc">>, <<NULL, "guardian">>,
     <<"health", "breitbart">>, <<NULL, NULL>>}

InitInsights == Init /\ tz = 0

NextInsights ==
    \/ Tick
    \/ \E args \in InsightArgs : TrackSearch(args[1], args[2])
    \/ \E days \in {0, 30} : HealthScore(days)

SpecInsights == InitInsights /\ [][NextInsights]_vars

(***************************************************************************)
(* The store behind several handles: settings, preferences, the source     *)
(* table and reset.                                                        *)
(***************************************************************************)
UpsertKeys == {"zeta", "Alpha", "alpha"}
UpsertBiases == {-5, 5}

\* the state after AnalyticsDatabase.__init__ on a new file: init_database creates
\* empty tables, and no BiasDetector has seeded source_analysis
InitStore ==
    /\ clock = 0
    /\ tz = 0
    /\ consumption_log = <<>>
    /\ sqlite_sequence = 0
    /\ source_analysis = EmptyTable
    /\ user_preferences = <<>>
    /\ analytics_settings = EmptyTable
    /\ session_start_time = None
    /\ input = None
    /\ ret = Returned("init", NULL)

NextStore ==
    \/ EnableTracking
    \/ DisableTracking
    \/ IsEnabled
    \/ NewTracker
    \/ SetDataRetentionDays(90)
    \/ TrackSearch("technology", "newsapi")
    \/ UpdateUserPreference("topic", "technology", 1)
    \/ \E source \in UpsertKeys, bias \in UpsertBiases : UpdateSourceAnalysis(source, bias, 5)
    \/ GetSourceAnalysis
    \/ CleanupOldData
    \/ ResetAnalytics

SpecStore == InitStore /\ [][NextStore]_vars

\* C11: reset_all, from any reachable state, leaves the consumption log, the user
\* preferences and the source-analysis table empty and leaves every analytics
\* setting exactly as it was.
C11_ResetFrame ==
    [][ret'.op = "reset_analytics" =>
        /\ consumption_log' = <<>>
        /\ user_preferences' = <<>>
        /\ DOMAIN source_analysis' = {}
        /\ analytics_settings' = analytics_settings]_vars

\* a reset of a store that has handed out ids and holds both settings
C11_Witness ==
    /\ ret.op = "reset_analytics"
    /\ sqlite_sequence > 0
    /\ DOMAIN analytics_settings = {"tracking_enabled", "data_retention_days"}
    /\ analytics_settings["tracking_enabled"] = "false"
    /\ analytics_settings["data_retention_days"] = "90"
    /\ consumption_log = <<>> /\ user_preferences = <<>> /\ DOMAIN source_analysis = {}

\* the rows of a listing are the rows of the table, in ascending order of source
ListsTable(rows, table) ==
    /\ \A i, j \in DOMAIN rows : i < j => StrLess(rows[i].source, rows[j].source)
    /\ {rows[i].source : i \in DOMAIN rows} = DOMAIN table
    /\ \A i \in DOMAIN rows :
            /\ rows[i].political_bias = table[rows[i].source].political_bias
            /\ rows[i].credibility_score = table[rows[i].source].credibility_score

\* C12: an upsert leaves the source-analysis table with one row for its key, carrying
\* the bias and credibility of that upsert, and every other row as it was; only an
\* upsert or a reset changes the table, so the table holds one row per key upserted
\* since the last reset, with the values of the most recent upsert; and
\* list_source_analysis returns those rows in ascending order of source key.
C12_UpsertAndList ==
    [][/\ ret'.op = "update_source_analysis" =>
            /\ DOMAIN source_analysis' = DOMAIN source_analysis \cup {ret'.args[1]}
            /\ source_analysis'[ret'.args[1]] =
                    [political_bias |-> ret'.args[2], credibility_score |-> ret'.args[3]]
            /\ \A k \in DOMAIN source_analysis \ {ret'.args[1]} :
                    source_analysis'[k] = source_analysis[k]
       /\ ret'.op \notin {"update_source_analysis", "reset_analytics"} =>
            source_analysis' = source_analysis
       /\ ret'.op = "get_source_analysis" => ListsTable(ret'.value, source_analysis)]_vars

\* three keys were upserted, Alpha twice, and are listed in the order of their bytes
C12_Witness ==
    /\ ret.op = "get_source_analysis"
    /\ Len(ret.value) = 3
    /\ ret.value[1] = [source |-> "Alpha", political_bias |-> 5, credibility_score |-> 5]
    /\ ret.value[2] = [source |-> "alpha", political_bias |-> -5, credibility_score |-> 5]
    /\ ret.value[3].source = "zeta"


(***************************************************************************)
(* C13: the health score.                                                  *)
(***************************************************************************)
HealthReturned == ret.op = "health_score"

\* the band of a score given in thousandths
Band(score) ==
    IF score >= 800 THEN "excellent"
    ELSE IF score >= 600 THEN "good"
    ELSE IF score >= 400 THEN "fair"
    ELSE "needs_improvement"

\* C13: for every history recorded through the tracker with the built-in source
\* table, the empty one included, the health score has an overall_score in [0,1],
\* every factor score in [0,1], and the interpretation that is the band of the
\* score returned: excellent from 0.8, good from 0.6, fair from 0.4,
\* needs_improvement below.
C13_HealthScoreBands ==
    HealthReturned =>
        /\ ret.value.overall_score \in 0..1000
        /\ \A k \in DOMAIN ret.value.factor_scores :
               ret.value.factor_scores[k] \in 0..1000
        /\ ret.value.interpretation = Band(ret.value.overall_score)

\* What does hold: the scores are in [0,1] and the interpretation is one of the
\* four bands, also for the empty history.
HealthScoreInRange ==
    HealthReturned =>
        /\ ret.value.overall_score \in 0..1000
        /\ \A k \in DOMAIN ret.value.factor_scores :
               ret.value.factor_scores[k] \in 0..1000
        /\ ret.value.interpretation \in {"excellent", "good", "fair", "needs_improvement"}

\* The interpretation is never more than one rounding step away from the band
\* of the score returned: it is that band, or the band below it when rounding
\* lifted the score onto a threshold.
HealthBandWithinRounding ==
    HealthReturned =>
        \/ ret.value.interpretation = Band(ret.value.overall_score)
        \/ /\ ret.value.overall_score \in {400, 600, 800}
           /\ ret.value.interpretation = Band(ret.value.overall_score - 1)

\* The empty history is scored.
HealthOfEmptyHistory ==
    HealthReturned /\ consumption_log = <<>>
        /\ ret.value.interpretation = "needs_improvement"

\* Views of ap (on technology), bbc and guardian: 0.6 with "fair".
HealthExample ==
    HealthReturned /\ ret.value.overall_score = 600 /\ ret.value.interpretation = "fair"

(***************************************************************************)
(* C14: the order of the activities_by_* mappings.                         *)
(***************************************************************************)
StatsReturned == ret.op = "get_usage_stats"

\* items are ordered by count descending, equal counts by key ascending
CountDescKeyAsc(items) ==
    \A i \in 1..Len(items) - 1 :
        \/ items[i][2] > items[i + 1][2]
        \/ items[i][2] = items[i + 1][2] /\ StrLess(items[i][1], items[i + 1][1])

\* items are ordered by count descending
CountDesc(items) ==
    \A i \in 1..Len(items) - 1 : items[i][2] >= items[i + 1][2]

\* C14: in the statistics returned, activities_by_action, activities_by_source
\* and activities_by_topic are ordered by count descending, and keys with equal
\* counts by key ascending.
C14_StatsOrder ==
    StatsReturned =>
        /\ CountDescKeyAsc(ret.value.activities_by_action)
        /\ CountDescKeyAsc(ret.value.activities_by_source)
        /\ CountDescKeyAsc(ret.value.activities_by_topic)

\* What does hold: the counts never increase along each mapping.
StatsOrderedByCount ==
    StatsReturned =>
        /\ CountDesc(ret.value.activities_by_action)
        /\ CountDesc(ret.value.activities_by_source)
        /\ CountDesc(ret.value.activities_by_topic)

\* Two keys with the same count are returned.
StatsTie ==
    /\ StatsReturned
    /\ Len(ret.value.activities_by_action) = 2
    /\ ret.value.activities_by_action[1][2] = ret.value.activities_by_action[2][2]

(***************************************************************************)
(* C15: daily_activity.                                                    *)
(***************************************************************************)
RECURSIVE SumOfCounts(_)
SumOfCounts(items) ==
    IF items = <<>> THEN 0 ELSE Head(items)[2] + SumOfCounts(Tail(items))

\* the calendar dates of the events in the window
DatesInWindow(days) == {Date(consumption_log[i].timestamp) : i \in InWindow(days)}

\* strictly ascending dates, counts of at least 1 that sum to total_activities
DailyShape(stats) ==
    /\ \A i \in 1..Len(stats.daily_activity) - 1 :
           stats.daily_activity[i][1] < stats.daily_activity[i + 1][1]
    /\ \A i \in DOMAIN stats.daily_activity : stats.daily_activity[i][2] >= 1
    /\ SumOfCounts(stats.daily_activity) = stats.total_activities

\* one pair for each date with an event in the window, and for no other date
DailyDates(stats) ==
    {stats.daily_activity[i][1] : i \in DOMAIN stats.daily_activity}
        = DatesInWindow(stats.period_days)

\* C15: in the statistics returned, daily_activity holds exactly one (date, count)
\* pair for each calendar date with at least one event in the window and none for
\* any other date, in strictly ascending date order, with every count at least 1
\* and the counts summing to total_activities.
C15_DailyActivity ==
    StatsReturned => DailyShape(ret.value) /\ DailyDates(ret.value)

\* What does hold in every time zone: the shape of the list.
DailyActivityShape ==
    StatsReturned => DailyShape(ret.value)

\* Where local time is UTC the dates are those of the window.
DailyActivityInUTC ==
    (StatsReturned /\ tz = 0) => DailyShape(ret.value) /\ DailyDates(ret.value)

\* Events of two dates are returned.
DailyTwoDates ==
    StatsReturned /\ tz = 0 /\ Len(ret.value.daily_activity) = 2

(***************************************************************************)
(* The public calls at their boundary: actions, periods and retention      *)
(* values of any kind, on a store whose local time is UTC.                 *)
(***************************************************************************)
\* AnalyticsDatabase.log_consumption(action), called directly
LogConsumption(action) ==
    /\ log_consumption(action, NULL, NULL, NULL, NULL)
    /\ ret' = [op |-> "log_consumption", value |-> NULL, args |-> <<action>>]
    /\ UNCHANGED <<clock, tz, input, source_analysis, user_preferences, analytics_settings,
                   session_start_time>>

GetDataRetentionDays ==
    /\ ret' = Returned("get_data_retention_days", get_data_retention_days)
    /\ UNCHANGED <<clock, tz, input, store, session_start_time>>

BoundaryActions == {"search", "bogus"}
BoundaryPeriods == {-1, 1}
BoundaryRetentions == {0, 90, 3651}

NextBoundary ==
    \/ Tick
    \/ \E action \in BoundaryActions : LogConsumption(action)
    \/ \E days \in BoundaryPeriods : GetUsageStats(days)
    \/ \E days \in BoundaryRetentions : SetDataRetentionDays(days)
    \/ GetDataRetentionDays
    \/ CleanupOldData

SpecBoundary == InitStore /\ [][NextBoundary]_vars

(***************************************************************************)
(* C16: malformed input.                                                   *)
(***************************************************************************)
\* the actions the tracker records
Vocabulary ==
    {"search", "view", "summary", "sources", "config", "list-topics", "analytics",
     "export", "recommend"}

\* C16: malformed input is rejected and applies nothing: recording an action
\* outside the vocabulary appends no event, so every stored event's action is in
\* the vocabulary, and statistics for a negative number of days raise instead of
\* returning a result.
C16_Validation ==
    /\ \A i \in DOMAIN consumption_log : consumption_log[i].action \in Vocabulary
    /\ StatsReturned => ret.value.period_days >= 0

\* Recording an action outside the vocabulary appends no event.
UnknownActionAppendsNothing ==
    [][(ret'.op = "log_consumption" /\ ret'.args[1] \notin Vocabulary)
        => consumption_log' = consumption_log]_vars

\* A negative period is answered with the statistics of an empty window.
NegativeDaysAnswered ==
    StatsReturned /\ ret.value.period_days < 0 /\ consumption_log # <<>>
        /\ ret.value.total_activities = 0

\* What does hold: every event the tracker records has an action of the vocabulary.
TrackedActionsInVocabulary ==
    \A i \in DOMAIN consumption_log : consumption_log[i].action \in Vocabulary

(***************************************************************************)
(* C17: the life of a stored event.                                        *)
(***************************************************************************)
Ids(log) == {log[i].id : i \in DOMAIN log}

\* an event that stays in the log keeps every field
EventsImmutable ==
    \A i \in DOMAIN consumption_log, j \in DOMAIN consumption_log' :
        consumption_log[i].id = consumption_log'[j].id
            => consumption_log[i] = consumption_log'[j]

\* an event leaves the log in a reset or a cleanup only
LeavesByCleanupOrReset ==
    \A i \in DOMAIN consumption_log :
        consumption_log[i].id \notin Ids(consumption_log')
            => ret'.op \in {"cleanup_old_data", "reset_analytics"}

\* an event that a cleanup removes is older than the retention period
CleanupRemovesExpiredOnly ==
    \A i \in DOMAIN consumption_log :
        (consumption_log[i].id \notin Ids(consumption_log') /\ ret'.op = "cleanup_old_data")
            => i \in Expired

\* sqlite_sequence is the largest id given so far; a new event's id is above it
\* and above the id of every stored event
NewIdsGrow ==
    /\ \A j \in DOMAIN consumption_log' :
           consumption_log'[j].id \notin Ids(consumption_log)
               => /\ consumption_log'[j].id > sqlite_sequence
                  /\ \A i \in DOMAIN consumption_log :
                         consumption_log'[j].id > consumption_log[i].id
    /\ sqlite_sequence' >= sqlite_sequence
    /\ \A j \in DOMAIN consumption_log' : consumption_log'[j].id <= sqlite_sequence'

\* C17: across any sequence of store operations a stored event's fields never
\* change, an event leaves the log only through cleanup, when it is older than
\* the retention period, or through reset, and a new event's id is greater than
\* every id given before it, those of deleted events included.
C17_EventLifecycle ==
    [][/\ EventsImmutable
       /\ LeavesByCleanupOrReset
       /\ CleanupRemovesExpiredOnly
       /\ NewIdsGrow]_vars

\* What does hold in every time zone: all of it but the age of what cleanup removes.
EventLifecycleButAge ==
    [][EventsImmutable /\ LeavesByCleanupOrReset /\ NewIdsGrow]_vars

\* Where local time is UTC, all of it.
EventLifecycleInUTC ==
    [][tz = 0 => /\ EventsImmutable
                 /\ LeavesByCleanupOrReset
                 /\ CleanupRemovesExpiredOnly
                 /\ NewIdsGrow]_vars

\* An event recorded after others were deleted: its id is beyond the rows stored.
IdAfterDeletion ==
    /\ Len(consumption_log) = 1
    /\ consumption_log[1].id = 3

(***************************************************************************)
(* C18: the tracking flag.                                                 *)
(***************************************************************************)
\* what the last operation does to the flag
FlagFollowsLastCall ==
    /\ ret'.op = "enable_tracking" => is_tracking_enabled'
    /\ ret'.op = "disable_tracking" => ~is_tracking_enabled'
    /\ ret'.op \notin {"enable_tracking", "disable_tracking"}
           => is_tracking_enabled' = is_tracking_enabled
    /\ ret'.op = "is_enabled" => ret'.value = is_tracking_enabled

\* C18: tracking is enabled on a fresh store; is_enabled returns the effect of
\* the last enable_tracking or disable_tracking call; recording, cleanup, reset
\* and opening a new tracker on the store leave the flag as it is.
C18_TrackingFlag ==
    /\ is_tracking_enabled
    /\ [][FlagFollowsLastCall]_vars

\* Tracking was disabled, a new tracker was opened, and tracking is still disabled.
C18_Witness ==
    /\ ret.op = "new_tracker"
    /\ ~is_tracking_enabled

(***************************************************************************)
(* C19: the retention setting.                                             *)
(***************************************************************************)
RetentionDomain == 1..3650

\* C19: in every reachable state the retention read through
\* get_data_retention_days is an integer in [1, 3650], 365 when never set and
\* otherwise the last value set, and no call makes a value outside [1, 3650]
\* the retention that cleanup uses.
C19_RetentionDomain ==
    /\ get_data_retention_days \in RetentionDomain
    /\ ret.op = "get_data_retention_days" => ret.value \in RetentionDomain

\* What does hold: the value read is 365 or one of the values set, as stored.
RetentionIsDefaultOrSet ==
    /\ get_data_retention_days \in {365} \cup BoundaryRetentions
    /\ "data_retention_days" \notin DOMAIN analytics_settings => get_data_retention_days = 365
    /\ ret.op = "get_data_retention_days" => ret.value = RetentionSetting

\* Set 90, then get returns 90.
RetentionSet90 ==
    ret.op = "get_data_retention_days" /\ ret.value = 90

\* A retention of 0 days is in force and a cleanup under it deleted an event.
RetentionZeroUsed ==
    /\ ret.op = "cleanup_old_data"
    /\ RetentionSetting = 0
    /\ ret.value >= 1

(***************************************************************************)
(* NewsRecommender.  A recommendation is written without its reason text;  *)
(* bias and credibility are in tenths.                                     *)
(***************************************************************************)
Rec(source, bias, credibility, category) ==
    [source |-> source, bias |-> bias, credibility |-> credibility, category |-> category]

starter_sources ==
    <<Rec("reuters", 0, 9, "neutral"), Rec("ap", 0, 9, "neutral"),
      Rec("bbc", -1, 8, "international"), Rec("npr", -2, 8, "analysis"),
      Rec("wsj", 3, 9, "business")>>

left_sources ==
    <<Rec("guardian", -6, 8, "left-balance"), Rec("npr", -2, 8, "left-balance")>>

right_sources ==
    <<Rec("wsj", 3, 9, "right-balance"), Rec("nypost", 5, 6, "right-balance")>>

center_sources ==
    <<Rec("reuters", 0, 9, "center-balance"), Rec("ap", 0, 9, "center-balance")>>

high_credibility_sources ==
    <<Rec("reuters", 0, 9, "high-credibility"), Rec("ap", 0, 9, "high-credibility"),
      Rec("wsj", 3, 9, "high-credibility"), Rec("nytimes", -4, 9, "high-credibility"),
      Rec("bbc", -1, 8, "high-credibility")>>

\* _get_starter_recommendations; the score and the potential are in thousandths
get_starter_recommendations ==
    [recommendations |-> starter_sources,
     current_diversity_score |-> 0,
     echo_chamber_risk |-> FALSE,
     improvement_potential |-> 1000]

\* count / total < tenths / 10
RatioBelow(count, total, tenths) == 10 * count < tenths * total

\* _get_balance_recommendations
get_balance_recommendations(diversity_analysis) ==
    LET balance == Get(diversity_analysis, "political_balance", EmptyDict)
        left_count == Get(balance, "left", 0)
        center_count == Get(balance, "center", 0)
        right_count == Get(balance, "right", 0)
        total == left_count + center_count + right_count
    IN  IF total = 0 THEN <<>>
        ELSE (IF RatioBelow(left_count, total, 2) THEN left_sources ELSE <<>>)
             \o (IF RatioBelow(right_count, total, 2) THEN right_sources ELSE <<>>)
             \o (IF RatioBelow(center_count, total, 3) THEN center_sources ELSE <<>>)

\* _get_credibility_recommendations
get_credibility_recommendations(diversity_analysis) ==
    IF Get(diversity_analysis, "average_credibility", 500) >= 800
    THEN <<>>
    ELSE high_credibility_sources

InList(x, list) == \E i \in DOMAIN list : list[i] = x

\* the loop over recommendations from its i-th element on: a source not seen
\* before and not among current_sources is appended; the loop breaks once limit
\* entries are there
RECURSIVE UniqueFrom(_, _, _, _, _, _)
UniqueFrom(recommendations, i, seen, unique, current_sources, limit) ==
    IF i > Len(recommendations) THEN unique
    ELSE IF /\ recommendations[i].source \notin seen
            /\ ~InList(recommendations[i].source, current_sources)
    THEN IF Len(unique) + 1 >= limit
         THEN Append(unique, recommendations[i])
         ELSE UniqueFrom(recommendations, i + 1, seen \cup {recommendations[i].source},
                         Append(unique, recommendations[i]), current_sources, limit)
    ELSE UniqueFrom(recommendations, i + 1, seen, unique, current_sources, limit)

\* list[:limit]
Slice(list, limit) ==
    IF limit >= 0 THEN SubSeq(list, 1, Min(limit, Len(list)))
    ELSE SubSeq(list, 1, Max(Len(list) + limit, 0))

\* _calculate_improvement_potential, in thousandths
calculate_improvement_potential(current_sources, recommended_sources) ==
    IF recommended_sources = <<>> THEN 0
    ELSE LET current_score ==
                Get(analyze_source_diversity(current_sources), "diversity_score", 0)
             potential_sources == current_sources \o [i \in DOMAIN recommended_sources |-> recommended_sources[i].source]
             potential_score ==
                Get(analyze_source_diversity(potential_sources), "diversity_score", 0)
         IN  Max(0, Min(1000, potential_score - current_score))

\* get_source_recommendations, from the result of its get_consumption_stats(days);
\* the rationale text is left out
get_source_recommendations(stats, limit) ==
    LET current_sources == Keys(stats.activities_by_source)
        diversity == analyze_source_diversity(current_sources)
        echo == detect_echo_chamber(current_sources, DefaultThreshold)
        recommendations ==
            get_balance_recommendations(diversity) \o get_credibility_recommendations(diversity)
        unique_recommendations ==
            UniqueFrom(recommendations, 1, {}, <<>>, current_sources, limit)
    IN  IF current_sources = <<>> THEN get_starter_recommendations
        ELSE [recommendations |-> Slice(unique_recommendations, limit),
              current_diversity_score |-> Get(diversity, "diversity_score", 0),
              echo_chamber_risk |-> Get(echo, "is_echo_chamber", FALSE),
              improvement_potential |->
                 calculate_improvement_potential(current_sources,
                                                 Slice(unique_recommendations, limit))]

GetSourceRecommendations(days, limit) ==
    /\ \E stats \in get_consumption_stats(days) :
            ret' = [op |-> "get_source_recommendations",
                    value |-> get_source_recommendations(stats, limit),
                    args |-> <<days, limit>>]
    /\ UNCHANGED <<clock, tz, input, store, session_start_time>>

\* the sources read, the periods and the limits that are sampled
ReadSources == {"guardian", "ap", "breitbart"}
RecPeriods == {0, 30}
Limits == {0, 1, 5}
MaxViews == 2       \* views in the history the recommendations are drawn from

\* the recommender reads the statistics, which read local time
InitRecommender == Init

NextRecommender ==
    \/ Tick
    \/ \E source \in ReadSources :
            Len(consumption_log) < MaxViews /\ TrackView(NULL, source)
    \/ \E days \in RecPeriods, limit \in Limits : GetSourceRecommendations(days, limit)

SpecRecommender == InitRecommender /\ [][NextRecommender]_vars

(***************************************************************************)
(* C20: source recommendations.                                            *)
(***************************************************************************)
RecsReturned == ret.op = "get_source_recommendations"

\* the sources of the events in the window
InPeriodSources(days) == {consumption_log[i].source : i \in InWindow(days)} \ {NULL}

\* C20: for a history with at least one source in the period and a limit >= 0,
\* the recommendations returned name no source twice and no source of the
\* period, are at most limit in number, and come with an improvement_potential
\* in [0,1] that is 0.0 when no recommendation remains.
C20_SourceRecommendations ==
    (RecsReturned /\ InPeriodSources(ret.args[1]) # {} /\ ret.args[2] >= 0) =>
        LET recs == ret.value.recommendations
        IN  /\ \A i, j \in DOMAIN recs : i # j => recs[i].source # recs[j].source
            /\ \A i \in DOMAIN recs : recs[i].source \notin InPeriodSources(ret.args[1])
            /\ Len(recs) <= ret.args[2]
            /\ ret.value.improvement_potential \in 0..1000
            /\ recs = <<>> => ret.value.improvement_potential = 0

\* ap and breitbart were read: five recommendations, with ap left out of them,
\* and a potential that is clamped to 0.0.
C20_Witness ==
    /\ RecsReturned
    /\ InPeriodSources(ret.args[1]) = {"ap", "breitbart"}
    /\ Len(ret.value.recommendations) = 5
    /\ ret.value.improvement_potential = 0

\* With limit 0 nothing is recommended and the potential is 0.0.
RecsLimitZero ==
    /\ RecsReturned
    /\ InPeriodSources(ret.args[1]) # {}
    /\ ret.args[2] = 0
    /\ ret.value.recommendations = <<>>
    /\ ret.value.improvement_potential = 0

\* Where local time is UTC the recommendations are as C20 says.
RecommendationsInUTC ==
    tz = 0 => C20_SourceRecommendations

\* An event of the period that the statistics do not see: its source is recommended.
ReadSourceRecommended ==
    /\ RecsReturned
    /\ \E i \in DOMAIN ret.value.recommendations :
           ret.value.recommendations[i].source \in InPeriodSources(ret.args[1])

(***************************************************************************)
(* C21: the starter pack.                                                  *)
(***************************************************************************)
RecSources(value) == [i \in DOMAIN value.recommendations |-> value.recommendations[i].source]

IsStarterPack(value) ==
    /\ RecSources(value) = <<"reuters", "ap", "bbc", "npr", "wsj">>
    /\ value.current_diversity_score = 0
    /\ value.echo_chamber_risk = FALSE

\* C21: get_source_recommendations returns the starter pack of five sources
\* (reuters, ap, bbc, npr, wsj), with diversity score 0.0 and no echo chamber
\* risk, for any limit, if and only if the history of the period holds no event
\* with a source.
C21_StarterPack ==
    RecsReturned => (IsStarterPack(ret.value) <=> InPeriodSources(ret.args[1]) = {})

\* Where local time is UTC the pack is returned exactly for the empty history.
StarterPackInUTC ==
    tz = 0 => C21_StarterPack

\* The pack is returned whole with limit 0.
StarterPackLimitZero ==
    RecsReturned /\ tz = 0 /\ ret.args[2] = 0 /\ IsStarterPack(ret.value)

\* Recommendations other than the pack are returned for an empty period.
NoPackForEmptyPeriod ==
    RecsReturned /\ InPeriodSources(ret.args[1]) = {} /\ ~IsStarterPack(ret.value)

(***************************************************************************)
(* NewsRecommender.get_topic_recommendations.  list(a_set) comes in an     *)
(* order Python does not fix, so a result is one of a set; explored_topics *)
(* is written as the set it lists.                                         *)
(***************************************************************************)
all_topics ==
    {"business", "entertainment", "general", "health", "science", "sports", "technology"}

topic_explanations ==
    [topic \in all_topics |->
        CASE topic = "business" ->
                "Stay informed about economic trends and market developments"
          [] topic = "entertainment" ->
                "Discover cultural trends and entertainment industry news"
          [] topic = "general" -> "Get broad coverage of current events and breaking news"
          [] topic = "health" ->
                "Learn about medical breakthroughs and health policy updates"
          [] topic = "science" ->
                "Explore scientific discoveries and technological innovations"
          [] topic = "sports" -> "Follow major sporting events and athlete stories"
          [] topic = "technology" ->
                "Keep up with tech developments and digital transformation"]

\* len(list[:limit]) for a list of n elements
SliceLen(n, limit) == IF limit >= 0 THEN Min(limit, n) ELSE Max(n + limit, 0)

\* list(S)[:limit]: the lists it may be
ListPrefixes(S, limit) ==
    {p \in [1..SliceLen(Cardinality(S), limit) -> S] :
        \A i, j \in DOMAIN p : i # j => p[i] # p[j]}

RemoveAt(list, i) == SubSeq(list, 1, i - 1) \o SubSeq(list, i + 1, Len(list))

\* sorted(topic_counts.items(), key=lambda x: x[1]): ascending by count, items
\* of equal count in the order of the dict
RECURSIVE SortedByCount(_)
SortedByCount(items) ==
    IF items = <<>> THEN <<>>
    ELSE LET i == CHOOSE n \in DOMAIN items :
                    /\ \A m \in DOMAIN items : items[n][2] <= items[m][2]
                    /\ \A m \in 1..(n - 1) : items[m][2] > items[n][2]
         IN  <<items[i]>> \o SortedByCount(RemoveAt(items, i))

\* the loop over unexplored topics
TopicExpansion(topics) ==
    [i \in DOMAIN topics |->
        [topic |-> topics[i], reason |-> topic_explanations[topics[i]],
         category |-> "topic-expansion"]]

\* the loop over sorted_topics[:limit]: the topics of low usage
TopicDeepening(items, limit) ==
    LET low == SelectSeq(Slice(SortedByCount(items), limit), LAMBDA item : item[2] < 3)
    IN  [i \in DOMAIN low |->
            [topic |-> low[i][1],
             reason |-> "You've only searched this " \o IntToStr(low[i][2])
                            \o " times - explore more depth",
             category |-> "topic-deepening"]]

\* _generate_topic_rationale, from len(current_topics); len(all_topics) is 7
generate_topic_rationale(n) ==
    IF n = 0
    THEN "Start exploring different news topics for well-rounded awareness"
    ELSE IF 2 * n < 7
    THEN "You've explored " \o IntToStr(n) \o " of 7 topics. Broaden your interests for better coverage."
    ELSE IF 10 * n < 56
    THEN "Good topic diversity! Consider exploring the remaining " \o IntToStr(7 - n) \o " topics."
    ELSE "Excellent topic coverage! Focus on deepening your understanding in areas of interest."

\* the results get_topic_recommendations may return, from the result of its
\* get_consumption_stats(days)
get_topic_recommendations(stats, limit) ==
    LET current_topics == {stats.activities_by_topic[i][1] : i \in DOMAIN stats.activities_by_topic}
        unexplored_topics == all_topics \ current_topics
    IN  {[recommendations |->
             IF first = <<>> /\ current_topics # {}
             THEN TopicDeepening(stats.activities_by_topic, limit)
             ELSE TopicExpansion(first),
          explored_topics |-> current_topics,
          topic_coverage |-> IntToStr(Cardinality(current_topics)) \o "/7 topics explored",
          rationale |-> generate_topic_rationale(Cardinality(current_topics))] :
            first \in ListPrefixes(unexplored_topics, limit)}

GetTopicRecommendations(days, limit) ==
    /\ \E stats \in get_consumption_stats(days) :
            \E value \in get_topic_recommendations(stats, limit) :
                ret' = [op |-> "get_topic_recommendations", value |-> value,
                        args |-> <<days, limit>>]
    /\ UNCHANGED <<clock, tz, input, store, session_start_time>>

\* Histories of searches by topic, all recorded at time 0: TopicCounts[i] searches
\* of TopicOrder[i], for the first n topics.
TopicOrder ==
    <<"technology", "business", "entertainment", "general", "health", "science", "sports">>

TopicCounts == {<<1, 2, 3, 3, 4, 4, 5>>, <<1, 3, 3, 4, 4, 5, 5>>}

RECURSIVE Repeat(_, _)
Repeat(x, n) == IF n = 0 THEN <<>> ELSE <<x>> \o Repeat(x, n - 1)

RECURSIVE SearchedTopics(_, _)
SearchedTopics(counts, n) ==
    IF n = 0 THEN <<>>
    ELSE SearchedTopics(counts, n - 1) \o Repeat(TopicOrder[n], counts[n])

\* the log after track_search(topic=...) for each of the topics, in turn
SearchHistory(topics) ==
    [k \in DOMAIN topics |->
        [id |-> k, timestamp |-> 0, action |-> "search", topic |-> topics[k],
         source |-> NULL, keywords |-> NULL, duration |-> 0]]

TopicHistories ==
    {SearchHistory(SearchedTopics(counts, n)) : counts \in TopicCounts, n \in 0..Len(TopicOrder)}

TopicLimits == {0, 2}

InitTopics ==
    /\ clock = 0
    /\ tz \in TimeZones
    /\ consumption_log \in TopicHistories
    /\ sqlite_sequence = Len(consumption_log)
    /\ source_analysis = KNOWN_SOURCES
    /\ user_preferences = <<>>
    /\ analytics_settings = EmptyTable
    /\ session_start_time = None
    /\ input = None
    /\ ret = Returned("init", NULL)

NextTopics ==
    \/ Tick
    \/ \E days \in RecPeriods, limit \in TopicLimits : GetTopicRecommendations(days, limit)

SpecTopics == InitTopics /\ [][NextTopics]_vars

(***************************************************************************)
(* C22: topic recommendations.                                             *)
(***************************************************************************)
TopicsReturned == ret.op = "get_topic_recommendations"

\* the topics of the events in the window
InPeriodTopics(days) == {consumption_log[i].topic : i \in InWindow(days)} \ {NULL}

\* the number of events of the window on a topic
InPeriodCount(days, topic) ==
    Cardinality({i \in InWindow(days) : consumption_log[i].topic = topic})

RecommendedTopics(value) ==
    {value.recommendations[i].topic : i \in DOMAIN value.recommendations}

\* C22: get_topic_recommendations returns at most limit recommendations; while
\* a topic of the universe of seven has no event in the period, every
\* recommended topic is a topic of the universe without an event in the period;
\* explored topics are recommended only when every topic of the universe is
\* explored, and then only those with fewer than 3 events.
C22_TopicRecommendations ==
    (TopicsReturned /\ ret.args[2] >= 0) =>
        /\ Len(ret.value.recommendations) <= ret.args[2]
        /\ IF all_topics \subseteq InPeriodTopics(ret.args[1])
           THEN \A topic \in RecommendedTopics(ret.value) :
                    /\ topic \in InPeriodTopics(ret.args[1])
                    /\ InPeriodCount(ret.args[1], topic) < 3
           ELSE /\ RecommendedTopics(ret.value)
                        \subseteq all_topics \ InPeriodTopics(ret.args[1])
                /\ RecommendedTopics(ret.value) \cap ret.value.explored_topics = {}

\* Where local time is UTC the topics are as C22 says.
TopicRecommendationsInUTC ==
    tz = 0 => C22_TopicRecommendations

\* In every time zone: at most limit recommendations, none of them among
\* explored_topics unless all seven topics are.
TopicRecommendationsShape ==
    (TopicsReturned /\ ret.args[2] >= 0) =>
        /\ Len(ret.value.recommendations) <= ret.args[2]
        /\ ~(all_topics \subseteq ret.value.explored_topics)
                => RecommendedTopics(ret.value) \cap ret.value.explored_topics = {}

\* All seven topics are explored and the least used ones are recommended.
TopicsDeepened ==
    /\ TopicsReturned
    /\ tz = 0
    /\ all_topics \subseteq InPeriodTopics(ret.args[1])
    /\ Len(ret.value.recommendations) = 2

\* Of the two least used topics one has 3 events and is left out.
TopicsDeepenedFiltered ==
    /\ TopicsReturned
    /\ tz = 0
    /\ all_topics \subseteq InPeriodTopics(ret.args[1])
    /\ ret.args[2] = 2
    /\ Len(ret.value.recommendations) = 1

(***************************************************************************)
(* InsightsGenerator._analyze_trends: the activity trend.  It is a function *)
(* of stats["daily_activity"]; the concentration indexes and                *)
(* action_preferences, which do not read daily_activity, are left out.      *)
(***************************************************************************)
Counts(rows) == [i \in DOMAIN rows |-> rows[i][2]]

\* daily_activity[-7:], for at least 7 rows
recent_week(rows) == SubSeq(rows, Len(rows) - 6, Len(rows))

\* daily_activity[-14:-7] taken whenever there are rows before the last 7
previous_week_Partial(rows) == SubSeq(rows, Max(Len(rows) - 13, 1), Len(rows) - 7)

\* daily_activity[-14:-7] if len(daily_activity) >= 14 else []
previous_week(rows) ==
    IF Len(rows) >= 14 THEN SubSeq(rows, Len(rows) - 13, Len(rows) - 7) ELSE <<>>

\* a mean is the fraction <<sum, number of rows>>
Mean(numbers) == <<Sum(numbers), Len(numbers)>>

\* a > b * tenths / 10, for means a and b
MeanAbove(a, b, tenths) == 10 * a[1] * b[2] > tenths * b[1] * a[2]

\* a < b * tenths / 10, for means a and b
MeanBelow(a, b, tenths) == 10 * a[1] * b[2] < tenths * b[1] * a[2]

\* round(((recent_avg - previous_avg) / max(previous_avg, 1)) * 100, 1), in tenths
TrendChange(recent_avg, previous_avg) ==
    LET num == recent_avg[1] * previous_avg[2] - previous_avg[1] * recent_avg[2]
        den == IF previous_avg[1] > previous_avg[2]
               THEN previous_avg[1] * recent_avg[2]
               ELSE previous_avg[2] * recent_avg[2]
    IN  RoundDiv(1000 * num, den)

\* the "activity_trend" entry of _analyze_trends
activity_trend(daily_activity) ==
    IF Len(daily_activity) >= 7
    THEN LET recent_avg == Mean(Counts(recent_week(daily_activity)))
             previous_avg ==
                IF previous_week(daily_activity) # <<>>
                THEN Mean(Counts(previous_week(daily_activity)))
                ELSE recent_avg
         IN  [direction |->
                 IF MeanAbove(recent_avg, previous_avg, 11) THEN "increasing"
                 ELSE IF MeanBelow(recent_avg, previous_avg, 9) THEN "decreasing"
                 ELSE "stable",
              change_percentage |-> TrendChange(recent_avg, previous_avg)]
    ELSE [direction |-> "insufficient_data", change_percentage |-> 0]

AnalyzeTrends(daily_activity) ==
    /\ ret' = Returned("analyze_trends", activity_trend(daily_activity))
    /\ UNCHANGED <<clock, tz, input, store, session_start_time>>

\* Lists of daily counts: a day of 3 events, a week of WeekTotals events and
\* another week, of which the last n rows are taken.
WeekTotals == {7, 9, 10, 11, 14, 20}
TrendLengths == {0, 6, 7, 8, 13, 14, 15}

\* seven counts of at least 1 that sum to total
Week(total) ==
    [i \in 1..7 |-> 1 + (total - 7) \div 7 + (IF i <= (total - 7) % 7 THEN 1 ELSE 0)]

\* the (date, count) rows of the last n of the counts, on consecutive dates
LastRows(counts, n) ==
    [i \in 1..n |-> <<i - 1, counts[Len(counts) - n + i]>>]

TrendInputs ==
    {LastRows(<<3>> \o Week(previous) \o Week(recent), n) :
        previous \in WeekTotals, recent \in WeekTotals, n \in TrendLengths}

InitTrends ==
    /\ Constructed
    /\ tz = 0
    /\ input \in [daily_activity : TrendInputs]

NextTrends == AnalyzeTrends(input.daily_activity)

SpecTrends == InitTrends /\ [][NextTrends]_vars

(***************************************************************************)
(* C23: the activity trend.                                                *)
(***************************************************************************)
TrendReturned == ret.op = "analyze_trends"

\* the sum of the counts of rows from..to
CountsOf(rows, from, to) == SumOfCounts(SubSeq(rows, from, to))

\* the direction the comparison of the last 7 rows with the 7 before them gives
ComparedDirection(rows) ==
    LET recent == CountsOf(rows, Len(rows) - 6, Len(rows))
        previous == CountsOf(rows, Len(rows) - 13, Len(rows) - 7)
    IN  IF 10 * recent > 11 * previous THEN "increasing"
        ELSE IF 10 * recent < 9 * previous THEN "decreasing"
        ELSE "stable"

\* C23: the activity direction is "insufficient_data" with change 0 for fewer
\* than 7 rows of daily_activity; "stable" with change 0 for 7 to 13 rows, where
\* no previous week is used; and for 14 rows or more "increasing" when the mean
\* of the last 7 rows is above 1.1 times the mean of the 7 rows before them,
\* "decreasing" when it is below 0.9 times that mean, "stable" otherwise.
C23_ActivityTrend ==
    TrendReturned =>
        IF Len(input.daily_activity) < 7
        THEN ret.value = [direction |-> "insufficient_data", change_percentage |-> 0]
        ELSE IF Len(input.daily_activity) < 14
        THEN ret.value = [direction |-> "stable", change_percentage |-> 0]
        ELSE ret.value.direction = ComparedDirection(input.daily_activity)

\* Thirteen rows whose first six are busier than the last seven: still stable.
C23_Witness ==
    /\ TrendReturned
    /\ Len(input.daily_activity) = 13
    /\ input.daily_activity[1][2] > input.daily_activity[13][2]
    /\ ret.value.direction = "stable"

\* Two weeks compared: a decrease.
TrendDecreasing ==
    /\ TrendReturned
    /\ Len(input.daily_activity) = 14
    /\ ret.value.direction = "decreasing"

(***************************************************************************)
(* InsightsGenerator._detect_blind_spots.  improvement_areas, which is      *)
(* text built from the other entries, is left out.                         *)
(***************************************************************************)
\* sum(dict.values()), for a dict written as the sequence of its items
SumValues(items) == Sum([i \in DOMAIN items |-> items[i][2]])

\* missing_topics = all_topics - covered_topics
missing_topics(stats) == all_topics \ {stats.activities_by_topic[i][1] :
                                          i \in DOMAIN stats.activities_by_topic}

\* the items with count / total_topic_activity < 0.1
underexplored_topics(stats) ==
    LET items == stats.activities_by_topic
        total_topic_activity == SumValues(items)
    IN  {items[i] : i \in {j \in DOMAIN items :
                              /\ total_topic_activity > 0
                              /\ 10 * items[j][2] < total_topic_activity}}

\* count / total_sources < 0.15
GapRatio(count, total_sources) == 100 * count < 15 * total_sources

\* the perspective_gaps list, from bias_summary
perspective_gaps(bias_summary) ==
    LET diversity_analysis == Get(bias_summary, "diversity_analysis", EmptyDict)
        balance == Get(diversity_analysis, "political_balance", EmptyDict)
        side(name) == Get(balance, name, 0)
        total_sources ==
            IF balance = EmptyDict THEN 0
            ELSE side("left") + side("center") + side("right")
    IN  IF total_sources > 0
        THEN (IF GapRatio(side("left"), total_sources)
              THEN <<"left-leaning perspectives">> ELSE <<>>)
             \o (IF GapRatio(side("center"), total_sources)
                 THEN <<"centrist perspectives">> ELSE <<>>)
             \o (IF GapRatio(side("right"), total_sources)
                 THEN <<"right-leaning perspectives">> ELSE <<>>)
        ELSE <<>>

international_sources == {"bbc", "guardian", "reuters"}
domestic_sources == {"cnn", "foxnews", "nytimes", "wsj", "usatoday"}

coverage_gap(stats) ==
    LET user_sources == {stats.activities_by_source[i][1] :
                            i \in DOMAIN stats.activities_by_source}
        international_coverage == Cardinality(user_sources \cap international_sources)
        domestic_coverage == Cardinality(user_sources \cap domestic_sources)
    IN  IF international_coverage = 0 /\ domestic_coverage > 0 THEN "international"
        ELSE IF domestic_coverage = 0 /\ international_coverage > 0 THEN "domestic"
        ELSE NULL

detect_blind_spots(stats, bias_summary) ==
    [missing_topics |-> missing_topics(stats),
     underexplored_topics |-> underexplored_topics(stats),
     perspective_gaps |-> perspective_gaps(bias_summary),
     coverage_gap |-> coverage_gap(stats),
     diversity_score |->
        Get(Get(bias_summary, "diversity_analysis", EmptyDict), "diversity_score", 0)]

\* generate_consumption_report(days)["blind_spots"]; sources_analyzed is kept
\* beside it for the count of analyzed sources
DetectBlindSpots(days) ==
    /\ \E stats \in get_consumption_stats(days) :
            LET bias_summary == get_bias_summary(stats)
            IN  ret' = [op |-> "detect_blind_spots",
                        value |-> detect_blind_spots(stats, bias_summary),
                        political_balance |->
                            Get(Get(bias_summary, "diversity_analysis", EmptyDict),
                                "political_balance", EmptyDict),
                        args |-> <<days>>]
    /\ UNCHANGED <<clock, tz, input, store, session_start_time>>

\* _detect_blind_spots on a bias summary with the political balance of input
DetectBlindSpotsOf(balance) ==
    /\ LET bias_summary ==
                [diversity_analysis |-> [political_balance |-> balance]]
        IN  ret' = [op |-> "detect_blind_spots",
                    value |-> detect_blind_spots(
                                [activities_by_topic |-> <<>>,
                                 activities_by_source |-> <<>>], bias_summary),
                    political_balance |-> balance,
                    args |-> <<>>]
    /\ UNCHANGED <<clock, tz, input, store, session_start_time>>

\* balances of 20, 14 and 3 analyzed sources
Balances ==
    {[left |-> 3, center |-> 17, right |-> 0],
     [left |-> 2, center |-> 12, right |-> 0],
     [left |-> 1, center |-> 1, right |-> 1]}

BlindSpotViews ==
    {<<"technology", "guardian">>, <<NULL, "ap">>, <<"politics", "breitbart">>}

InitBlindSpots ==
    /\ Constructed
    /\ clock = 0
    /\ tz \in TimeZones
    /\ input \in [political_balance : Balances]

NextBlindSpots ==
    \/ Tick
    \/ \E args \in BlindSpotViews :
            Len(consumption_log) < MaxViews /\ TrackView(args[1], args[2])
    \/ \E days \in RecPeriods : DetectBlindSpots(days)
    \/ DetectBlindSpotsOf(input.political_balance)

SpecBlindSpots == InitBlindSpots /\ [][NextBlindSpots]_vars

(***************************************************************************)
(* C24: blind spots.                                                       *)
(***************************************************************************)
BlindSpotsReturned == ret.op = "detect_blind_spots"

\* the perspectives flagged in a list of gaps
Flagged(gaps) ==
    {side \in {"left", "center", "right"} :
        \E i \in DOMAIN gaps :
            gaps[i] = (CASE side = "left" -> "left-leaning perspectives"
                         [] side = "center" -> "centrist perspectives"
                         [] side = "right" -> "right-leaning perspectives")}

\* the perspectives whose share of the analyzed sources is below 0.15
BelowShare(balance) ==
    IF balance = EmptyDict \/ balance.left + balance.center + balance.right = 0
    THEN {}
    ELSE {side \in {"left", "center", "right"} :
            100 * balance[side] < 15 * (balance.left + balance.center + balance.right)}

\* the perspective part: flagged exactly below a share of 0.15, nothing
\* flagged without analyzed sources, at most two flagged otherwise
PerspectiveGapsExact ==
    BlindSpotsReturned =>
        /\ Flagged(ret.value.perspective_gaps) = BelowShare(ret.political_balance)
        /\ Cardinality(Flagged(ret.value.perspective_gaps)) <= 2
        /\ Len(ret.value.perspective_gaps) = Cardinality(Flagged(ret.value.perspective_gaps))

\* the topic part, for a report on the history
MissingTopicsOfPeriod ==
    BlindSpotsReturned /\ ret.args # <<>> =>
        ret.value.missing_topics = all_topics \ InPeriodTopics(ret.args[1])

\* C24: missing_topics is the universe of seven topics minus the topics with an
\* event in the period, and a perspective is flagged as a gap exactly when its
\* share of the analyzed sources is below 0.15: none without analyzed sources,
\* at most two of the three otherwise.
C24_BlindSpots == MissingTopicsOfPeriod /\ PerspectiveGapsExact

\* With local time = UTC the claim holds.
BlindSpotsInUTC == tz = 0 => C24_BlindSpots

\* A share of exactly 0.15 (3 of 20) is not a gap, a share of 0 is.
GapAtBoundary ==
    /\ BlindSpotsReturned
    /\ ret.political_balance = [left |-> 3, center |-> 17, right |-> 0]
    /\ ret.value.perspective_gaps = <<"right-leaning perspectives">>

\* A report whose period holds a technology event and names technology missing.
CoveredTopicMissing ==
    /\ BlindSpotsReturned
    /\ ret.args # <<>>
    /\ "technology" \in InPeriodTopics(ret.args[1])
    /\ "technology" \in ret.value.missing_topics

(***************************************************************************)
(* Constructing the classifier again on a store whose source table users   *)
(* have written.                                                           *)
(***************************************************************************)
SeedKeys == {"reuters", "cnn", "zeta"}

NextSeeding ==
    \/ InitializeKnownSources
    \/ \E source \in SeedKeys, bias \in UpsertBiases : UpdateSourceAnalysis(source, bias, 5)
    \/ GetSourceAnalysis
    \/ ResetAnalytics

SpecSeeding == InitStore /\ [][NextSeeding]_vars

\* C25: constructing the classifier leaves every built-in key with its built-in
\* values, whatever a user upserted for it before, leaves the rows of all other
\* keys as they were and adds no other key; constructing it again right after a
\* construction changes nothing; and a listing has one row per source key.
C25_IdempotentSeeding ==
    [][/\ ret'.op = "bias_detector" =>
            /\ DOMAIN source_analysis' = DOMAIN source_analysis \cup DOMAIN KNOWN_SOURCES
            /\ \A k \in DOMAIN KNOWN_SOURCES : source_analysis'[k] = KNOWN_SOURCES[k]
            /\ \A k \in DOMAIN source_analysis \ DOMAIN KNOWN_SOURCES :
                    source_analysis'[k] = source_analysis[k]
            /\ ret.op = "bias_detector" => source_analysis' = source_analysis
       /\ ret'.op = "get_source_analysis" =>
            \A i, j \in DOMAIN ret'.value :
                ret'.value[i].source = ret'.value[j].source => i = j]_vars

\* a construction on a store that holds a user's row for zeta next to the
\* built-in rows
C25_Witness ==
    /\ ret.op = "bias_detector"
    /\ "zeta" \in DOMAIN source_analysis
    /\ source_analysis["zeta"] = Row(-5, 5)
    /\ source_analysis["cnn"] = KNOWN_SOURCES["cnn"]
    /\ Cardinality(DOMAIN source_analysis) = Cardinality(DOMAIN KNOWN_SOURCES) + 1

(***************************************************************************)
(* C26: the preference table.                                              *)
(***************************************************************************)
\* at most one row for each (preference_type, preference_value)
OneRowPerPreference ==
    \A i, j \in DOMAIN user_preferences :
        /\ user_preferences[i].preference_type = user_preferences[j].preference_type
        /\ user_preferences[i].preference_value = user_preferences[j].preference_value
        => i = j

\* update_user_preference changes nothing while tracking is disabled
PreferenceNoOpWhileDisabled ==
    [][ret'.op = "update_user_preference" /\ ~is_tracking_enabled
            => user_preferences' = user_preferences]_vars

\* C26: the preference table holds at most one row for each (preference_type,
\* preference_value): setting a preference that exists replaces its weight and
\* adds no row; and update_user_preference is a no-op while tracking is disabled.
C26_OnePreferenceRow == []OneRowPerPreference /\ PreferenceNoOpWhileDisabled

\* the same preference set twice: two rows
PreferenceTwice ==
    /\ ret.op = "update_user_preference"
    /\ Len(user_preferences) = 2
    /\ user_preferences[1] = user_preferences[2]

\* a preference set while tracking is disabled, after one was stored
PreferenceWhileDisabled ==
    /\ ret.op = "update_user_preference"
    /\ ~is_tracking_enabled
    /\ Len(user_preferences) = 1

(***************************************************************************)
(* An existing classifier after a reset of the store.                      *)
(***************************************************************************)
LookupNames == {"cnn", "FoxNews.com", "the-guardian", "zeta"}
ResetUpsertKeys == {"cnn", "zeta"}

InitReset ==
    /\ Constructed
    /\ tz = 0
    /\ input \in [source : LookupNames]

NextReset ==
    \/ GetSourceBias(input.source)
    \/ ResetAnalytics
    \/ InitializeKnownSources
    \/ \E source \in ResetUpsertKeys, bias \in UpsertBiases :
            UpdateSourceAnalysis(source, bias, 5)

SpecReset == InitReset /\ [][NextReset]_vars

(***************************************************************************)
(* C27: lookups between a reset and the next construction.                 *)
(***************************************************************************)
\* The store was reset and no classifier has been constructed since: the row
\* of bbc, which every construction writes and no upsert here does, is gone.
SinceReset == "bbc" \notin DOMAIN source_analysis

\* SinceReset is what its name says: false at first, set by a reset, cleared by
\* a construction and left alone by every other step.
SinceResetTracks ==
    /\ ~SinceReset
    /\ [][/\ ret'.op = "reset_analytics" => SinceReset'
          /\ ret'.op = "bias_detector" => ~SinceReset'
          /\ ret'.op \notin {"reset_analytics", "bias_detector"}
               => (SinceReset' <=> SinceReset)]_vars

LookupAfterReset == ret.op = "get_source_bias" /\ SinceReset

\* C27 as stated: between a reset and the next construction of a classifier,
\* get_source_bias returns the neutral (0.0, 0.5), a centre classification,
\* for every source, the built-in keys included.
C27_NeutralUntilConstructed ==
    LookupAfterReset => ret.value = Neutral

\* C27, amended: between a reset and the next construction, the table holds
\* only rows upserted since the reset, and get_source_bias returns the neutral
\* (0.0, 0.5), a centre classification, for every source without such a row,
\* the built-in keys included.
C27_NeutralUnlessUpserted ==
    LookupAfterReset =>
        /\ DOMAIN source_analysis \subseteq ResetUpsertKeys
        /\ CleanSourceName(input.source) \notin DOMAIN source_analysis =>
                /\ ret.value = Neutral
                /\ ~IsLeft(ret.value.political_bias) /\ ~IsRight(ret.value.political_bias)

\* a built-in key looked up after a reset: neutral
C27_Witness ==
    /\ LookupAfterReset
    /\ input.source = "FoxNews.com"
    /\ ret.value = Neutral
    /\ KNOWN_SOURCES["foxnews"] # Neutral

\* a key upserted after the reset is answered with the upserted row
UpsertedAfterReset ==
    /\ LookupAfterReset
    /\ input.source = "cnn"
    /\ ret.value = Row(5, 5)

(***************************************************************************)
(* The session timer of one tracker while time passes.                     *)
(***************************************************************************)
\* end_session(): the whole seconds since start_session, 0 without a session
EndSession ==
    /\ ret' = Returned("end_session", SessionDuration)
    /\ session_start_time' = None
    /\ UNCHANGED <<clock, tz, input, store>>

InitSession == Init /\ tz = 0

NextSession ==
    \/ Tick
    \/ StartSession
    \/ EndSession
    \/ EnableTracking
    \/ DisableTracking
    \/ Len(consumption_log) < MaxViews /\
            \/ TrackSearch("technology", NULL)
            \/ TrackView(NULL, "guardian")
            \/ TrackSummary("url", 0)
            \/ TrackSourcesList("newsapi", NULL)
            \/ TrackConfigView
            \/ TrackTopicsList
            \/ TrackAnalyticsView(30, "basic")
            \/ TrackExport("json", 30)
            \/ TrackRecommendationsView("sources")

SpecSession == InitSession /\ [][NextSession]_vars

(***************************************************************************)
(* C28: session timing.                                                    *)
(***************************************************************************)
\* the calls that record an event and consume the session
SessionTrackOps ==
    {"track_search", "track_view", "track_sources_list", "track_config_view",
     "track_topics_list", "track_analytics_view", "track_export",
     "track_recommendations_view"}

\* whole seconds from the start of the open session to now, 0 without a session
Elapsed == IF session_start_time = None THEN 0 ELSE (clock - session_start_time[1]) \div Res

SessionOpenWhileDisabled ==
    /\ ret.op \in SessionTrackOps
    /\ ~is_tracking_enabled
    /\ session_start_time = <<0>>
    /\ clock >= Res

(***************************************************************************)
(* Cleanup on a store that holds events, a preference and a retention      *)
(* setting, in every sampled time zone.                                    *)
(***************************************************************************)
NextCleanup ==
    \/ Tick
    \/ TrackSearch("technology", "newsapi")
    \/ UpdateUserPreference("topic", "technology", 1)
    \/ \E days \in RetentionDays : SetDataRetentionDays(days)
    \/ GetUsageStats(1)
    \/ CleanupOldData

SpecCleanup == Init /\ [][NextCleanup]_vars

(***************************************************************************)
(* C29: cleanup and the queries inside the retention period.               *)
(***************************************************************************)
\* the periods asked for that are not longer than the retention period
PeriodsInRetention ==
    {days \in Periods \cup {get_data_retention_days} : days <= get_data_retention_days}

\* C29: for every period_days <= data_retention_days, get_consumption_stats at
\* the instant of a cleanup returns the same after the cleanup as before it;
\* and a cleanup leaves the source-analysis rows, the preferences and the
\* settings as they were.
C29_CleanupKeepsVisible ==
    [][ret'.op = "cleanup_old_data" =>
        /\ \A days \in PeriodsInRetention :
                get_consumption_stats(days)' = get_consumption_stats(days)
        /\ source_analysis' = source_analysis
        /\ user_preferences' = user_preferences
        /\ analytics_settings' = analytics_settings]_vars

\* a cleanup under a retention of one day that removed a row and kept one
C29_Witness ==
    /\ ret.op = "cleanup_old_data"
    /\ ret.value > 0
    /\ get_data_retention_days = 1
    /\ consumption_log # <<>>
    /\ user_preferences # <<>>

(***************************************************************************)
(* The daily average of the report: the engagement insight of              *)
(* _generate_key_insights and the activity_level factor of the health      *)
(* score.  The other insights and factors do not read the average.         *)
(***************************************************************************)
\* daily_avg = total_activities / max(days, 1), as a fraction
daily_avg(stats) == <<stats.total_activities, Max(Len(stats.daily_activity), 1)>>

\* the "engagement" insight of _generate_key_insights, NULL for none
engagement_insight(stats) ==
    LET avg == daily_avg(stats)
    IN  IF 2 * avg[1] < avg[2] THEN "Low news engagement detected"
        ELSE IF avg[1] > 3 * avg[2] THEN "High news engagement"
        ELSE NULL

\* generate_consumption_report(days): the entries that depend on the average
EngagementReport(days) ==
    /\ \E stats \in get_consumption_stats(days) :
            ret' = [op |-> "generate_consumption_report",
                    value |-> [total_activities |-> stats.total_activities,
                               daily_avg |-> daily_avg(stats),
                               engagement |-> engagement_insight(stats),
                               activity_level |->
                                    ActivityLevel(stats.total_activities,
                                                  Len(stats.daily_activity))],
                    args |-> <<days>>]
    /\ UNCHANGED <<clock, tz, input, store, session_start_time>>

NextEngagement ==
    \/ Tick
    \/ TrackSearch("technology", NULL)
    \/ TrackSummary("url", 0)
    \/ \E days \in Periods : EngagementReport(days)

SpecEngagement == Init /\ [][NextEngagement]_vars

(***************************************************************************)
(* C30: the daily average.                                                 *)
(***************************************************************************)
ReportReturned == ret.op = "generate_consumption_report"

\* the low branch of the activity_level factor: daily_avg < 0.5
LowBranch == 2 * ret.value.daily_avg[1] < ret.value.daily_avg[2]

LowEngagement == ret.value.engagement = "Low news engagement detected"

\* C30: whenever the period contains an event the daily average is at least 1,
\* so the activity_level factor is not taken from the low branch (avg / 0.5) and
\* the "Low news engagement" insight is not emitted; both happen only when the
\* period contains no event.
C30_DailyAverage ==
    ReportReturned /\ InWindow(ret.args[1]) # {} =>
        /\ ret.value.daily_avg[1] >= ret.value.daily_avg[2]
        /\ ~LowBranch
        /\ ~LowEngagement

\* With local time = UTC the claim holds.
DailyAverageInUTC == tz = 0 => C30_DailyAverage

\* In every time zone the average is total_activities over the number of dates
\* with activity in the statistics, at least 1 unless the statistics count no
\* event, and the low branch and the insight come exactly with a count of 0.
DailyAverageOfStatistics ==
    ReportReturned =>
        /\ ret.value.total_activities > 0 =>
                /\ ret.value.daily_avg[1] >= ret.value.daily_avg[2]
                /\ ret.value.activity_level[1] = ret.value.activity_level[2]
        /\ LowBranch <=> ret.value.total_activities = 0
        /\ LowEngagement <=> ret.value.total_activities = 0
        /\ ret.value.total_activities = 0 => ret.value.activity_level[1] = 0

\* three events on two dates: an average of 1.5
AverageOverActiveDates ==
    /\ ReportReturned
    /\ ret.value.daily_avg = <<3, 2>>

\* low engagement reported for a period that holds an event
LowEngagementWithEvent ==
    /\ ReportReturned
    /\ InWindow(ret.args[1]) # {}
    /\ LowEngagement
====
